---- MODULE Spec2Model ----
(***************************************************************************)
(* A model of rd-logger's core: the FileTransport write queue              *)
(* (core/transports/file.transport.ts), the Logger dispatcher              *)
(* (core/logger.service.ts) and the serialization used by the console and  *)
(* file transports (core/utils.ts, core/sensitive).                        *)
(***************************************************************************)
EXTENDS Integers, Sequences, FiniteSets, TLC

(***************************************************************************)
(* Bounds of the model.                                                    *)
(***************************************************************************)
MaxEntries == 3     \* log() calls made on the FileTransport
MaxStreams == 3     \* write streams the FileTransport opens (initialize() calls)
MaxSubmitted == 5   \* log() calls made in the backpressure scenario

VARIABLES
  \* ---- FileTransport (file.transport.ts) ----
  fileStream,        \* this.fileStream: 0 is null, otherwise an index into streams
  logQueue,          \* this.logQueue
  isProcessingQueue, \* this.isProcessingQueue
  streams,           \* every fs.WriteStream created so far, in creation order
  waiters,           \* drain loops suspended at the await, each by the stream it listens on
  resumed,           \* drain loops whose promise has resolved and whose continuation is a pending microtask
  written,           \* history: every fileStream.write() call, in order
  submitted,         \* history: every entry accepted by log(), in order
  blocked,           \* history: the last operation was a processLogQueue() call that found a loop active
  cleanedStream,     \* history: the stream the last operation, a cleanup(), flushed and ended; 0 otherwise
  quota,             \* the number of entries the caller submits
  backpressure,      \* "any": write() may return either value; "always": it returns false
  \* ---- Logger (logger.service.ts) ----
  level,             \* this.config.level
  config,            \* this.config: the options other than level
  transports,        \* this.transports: the registered transport instances, in order
  built,             \* the number of transports the Logger has constructed
  opened,            \* the FileTransports the Logger constructed whose stream was opened and not ended
  cleanedUp,         \* history: the cleanup hooks the last operation invoked, in order, by transport
  now,               \* the clock read by new Date()
  lastCall,          \* history: the last Logger operation, its arguments, the transports it dropped
  delivered,         \* history: the transport.log() invocations that operation made, in order
  threw,             \* history: that operation let an exception propagate to its caller
  returned,          \* history: the value that operation returned, when it returns one
  \* ---- rendering of one log call's context by the built-in transports ----
  rctx,              \* the context handed to the transports
  consoleOut,        \* the text ConsoleTransport.log() builds for it, as a sequence of tokens
  fileOut,           \* the text FileTransport.log() builds for it, as a sequence of tokens
  rdone,             \* the transports that have rendered rctx
  \* ---- request context (request-context.ts) ----
  current,           \* the store requestContext.getStore() returns to the code that is executing
  stack,             \* the requestContext.run() calls and continuations in progress, innermost last
  bodies,            \* the functions passed to runWithRequestContext: progress and stores
  created,           \* the number of stores created
  observed,          \* history: the last getRequestStore()/getCurrentRequestId() call and its results
  \* ---- QueryLogger (query-logger.ts) ----
  qlogs,             \* this.logs
  qconfig,           \* this.config
  qlast,             \* history: the last QueryLogger operation, its arguments, results and logger calls
  qsubmitted,        \* history: the entries stored since construction or the last clearLogs()
  qstable,           \* history: maxLogs has not been changed since then
  \* ---- formatters and serialization (formatters/, utils.ts) ----
  formatter,         \* Logger: this.formatter
  formatted,         \* history: the last JsonFormatter.format() call, its arguments and its result
  stringified,       \* history: the last safeStringify() call on an object graph and its result
  \* ---- runWithGenericContext (adapters/generic.ts) ----
  gpc,               \* the position of the call: "idle", "awaiting" (at await fn()) or "settled"
  gopts,             \* its options: logStartEnd and requestId
  gstore,            \* the store runWithRequestContext created for it
  gtrace,            \* history: the logger calls it made and the begin and end of fn, in order
  goutcome           \* history: how its promise settled

ftVars == <<fileStream, logQueue, isProcessingQueue, streams, waiters, resumed,
            written, submitted, blocked, cleanedStream, quota, backpressure>>

loggerVars == <<level, config, transports, built, opened, cleanedUp, now, lastCall,
                delivered, threw, returned, formatter>>

renderVars == <<rctx, consoleOut, fileOut, rdone>>

ctxVars == <<current, stack, bodies, created, observed>>

qVars == <<qlogs, qconfig, qlast, qsubmitted, qstable>>

fmtVars == <<formatted, stringified>>

genVars == <<gpc, gopts, gstore, gtrace, goutcome>>

vars == <<ftVars, loggerVars, renderVars, ctxVars, qVars, fmtVars, genVars>>

(***************************************************************************)
(* Helpers on sequences.                                                   *)
(***************************************************************************)
Range(s) == {s[i] : i \in 1..Len(s)}

IsPrefix(s, t) == Len(s) <= Len(t) /\ \A i \in 1..Len(s) : s[i] = t[i]

Tail_(s, k) == SubSeq(s, k + 1, Len(s))

(***************************************************************************)
(* FileTransport                                                           *)
(***************************************************************************)

\* fs.createWriteStream(filePath, {flags: 'a'}): a fresh stream; its 'ready'
\* event has not been emitted yet.
NewStream == [ended |-> FALSE, errored |-> FALSE, needDrain |-> FALSE, ready |-> FALSE]

\* The values fileStream.write() may return: false signals backpressure.
WriteResults == IF backpressure = "always" THEN {FALSE} ELSE BOOLEAN

\* One fileStream.write(entry + '\n') call on stream s, as recorded in the history.
WriteRec(strs, s, e) == [s |-> s, e |-> e, open |-> ~strs[s].ended]

WriteAll(strs, s, q) == [i \in 1..Len(q) |-> WriteRec(strs, s, q[i])]

\* The finally block of processLogQueue: this.isProcessingQueue = false.  (Its
\* re-check of the queue finds it empty: the loop ends only on an empty queue.)
FlagStuck == TRUE

FlagAfterLoop == FALSE

\* The while loop of processLogQueue, entered (or resumed after the await)
\* with queue q and streams strs.  Entries are shifted off the head; each is
\* written if this.fileStream is set, and skipped otherwise.  The k-th write
\* is the first to return false (the loop then suspends on 'drain'), or all
\* writes return true and the loop runs to the finally block.
WhileLoop(q, strs) ==
  IF q = <<>> \/ fileStream = 0
  THEN /\ logQueue' = <<>>
       /\ isProcessingQueue' = FlagAfterLoop
       /\ UNCHANGED <<waiters, written>>
       /\ streams' = strs
  ELSE \E k \in 1..Len(q), last \in WriteResults :
         /\ k > 1 => TRUE \in WriteResults
         /\ k < Len(q) => last = FALSE
         /\ written' = written \o WriteAll(strs, fileStream, SubSeq(q, 1, k))
         /\ logQueue' = Tail_(q, k)
         /\ IF last = FALSE
            THEN /\ streams' = [strs EXCEPT ![fileStream].needDrain = TRUE]
                 /\ waiters' = Append(waiters, fileStream)
                 /\ isProcessingQueue' = TRUE
            ELSE /\ streams' = strs
                 /\ waiters' = waiters
                 /\ isProcessingQueue' = FlagAfterLoop

\* The guard of processLogQueue: return at once when a loop is active, the
\* queue is empty or there is no stream.
QueueGuardNoFlag(q) == q = <<>> \/ fileStream = 0

QueueGuard(q) == isProcessingQueue \/ q = <<>> \/ fileStream = 0

\* processLogQueue() called with queue q and streams strs.
ProcessLogQueue(q, strs) ==
  IF QueueGuard(q)
  THEN /\ logQueue' = q
       /\ streams' = strs
       /\ UNCHANGED <<isProcessingQueue, waiters, written>>
  ELSE WhileLoop(q, strs)

\* initialize(): initializeFileStream() ends the stream held, if any, and
\* opens a new one with its error and ready handlers.
Initialize ==
  /\ resumed = 0
  /\ Len(streams) < MaxStreams
  /\ LET closed == IF fileStream # 0
                   THEN [streams EXCEPT ![fileStream].ended = TRUE]
                   ELSE streams
     IN  /\ streams' = Append(closed, NewStream)
         /\ fileStream' = Len(streams) + 1
  /\ cleanedStream' = 0
  /\ blocked' = FALSE
  /\ UNCHANGED <<logQueue, isProcessingQueue, waiters, resumed, written,
                 submitted, quota, backpressure,
                 loggerVars, renderVars, ctxVars, qVars, fmtVars, genVars>>

\* log(level, message, timestamp, context): format, push, processLogQueue().
Log ==
  /\ resumed = 0
  /\ Len(submitted) < quota
  /\ LET e == Len(submitted) + 1
     IN  /\ submitted' = Append(submitted, e)
         /\ ProcessLogQueue(Append(logQueue, e), streams)
  /\ cleanedStream' = 0
  /\ blocked' = isProcessingQueue
  /\ UNCHANGED <<fileStream, resumed, quota, backpressure,
                 loggerVars, renderVars, ctxVars, qVars, fmtVars, genVars>>

\* The stream's 'ready' event: the handler calls processLogQueue().
Ready(s) ==
  /\ resumed = 0
  /\ s \in 1..Len(streams)
  /\ ~streams[s].ready
  /\ ~streams[s].errored
  /\ ProcessLogQueue(logQueue, [streams EXCEPT ![s].ready = TRUE])
  /\ cleanedStream' = 0
  /\ blocked' = isProcessingQueue
  /\ UNCHANGED <<fileStream, resumed, submitted, quota, backpressure,
                 loggerVars, renderVars, ctxVars, qVars, fmtVars, genVars>>

\* The stream's 'drain' event: emitted once the buffer of a stream that
\* returned false has emptied, and never for a stream that is ending or
\* destroyed.  Every once('drain') listener resolves its promise.
Drain(s) ==
  /\ resumed = 0
  /\ s \in 1..Len(streams)
  /\ streams[s].needDrain
  /\ ~streams[s].ended
  /\ ~streams[s].errored
  /\ streams' = [streams EXCEPT ![s].needDrain = FALSE]
  /\ waiters' = SelectSeq(waiters, LAMBDA w : w # s)
  /\ resumed' = Len(SelectSeq(waiters, LAMBDA w : w = s))
  /\ cleanedStream' = 0
  /\ blocked' = FALSE
  /\ UNCHANGED <<fileStream, logQueue, isProcessingQueue, written, submitted,
                 quota, backpressure,
                 loggerVars, renderVars, ctxVars, qVars, fmtVars, genVars>>

\* The continuation of a resolved await: the while loop goes on.  Microtasks
\* run before any other event or call, hence resumed = 0 guards the others.
Resume ==
  /\ resumed > 0
  /\ resumed' = resumed - 1
  /\ WhileLoop(logQueue, streams)
  /\ cleanedStream' = 0
  /\ blocked' = FALSE
  /\ UNCHANGED <<fileStream, submitted, quota, backpressure,
                 loggerVars, renderVars, ctxVars, qVars, fmtVars, genVars>>

\* The stream's 'error' event: the handler sets this.fileStream = null.
StreamError(s) ==
  /\ resumed = 0
  /\ s \in 1..Len(streams)
  /\ ~streams[s].errored
  /\ streams' = [streams EXCEPT ![s].errored = TRUE]
  /\ fileStream' = 0
  /\ cleanedStream' = 0
  /\ blocked' = FALSE
  /\ UNCHANGED <<logQueue, isProcessingQueue, waiters, resumed, written,
                 submitted, quota, backpressure,
                 loggerVars, renderVars, ctxVars, qVars, fmtVars, genVars>>

\* The body of cleanup() when this.fileStream is set: write every queued
\* entry, empty the queue, end the stream and drop it.
CleanupFlush ==
  /\ written' = written \o WriteAll(streams, fileStream, logQueue)
  /\ logQueue' = <<>>
  /\ streams' = [streams EXCEPT ![fileStream].ended = TRUE]
  /\ fileStream' = 0

\* cleanup()
Cleanup ==
  /\ resumed = 0
  /\ IF fileStream # 0
     THEN CleanupFlush
     ELSE UNCHANGED <<written, logQueue, streams, fileStream>>
  /\ cleanedStream' = fileStream
  /\ blocked' = FALSE
  /\ UNCHANGED <<isProcessingQueue, waiters, resumed, submitted, quota, backpressure,
                 loggerVars, renderVars, ctxVars, qVars, fmtVars, genVars>>

(***************************************************************************)
(* Logger                                                                  *)
(***************************************************************************)
MaxTransports == 2  \* transports registered at a time
MaxTime == 1        \* clock readings: 0..MaxTime
MaxBuilt == 3       \* transports the Logger constructs

LogLevels == {"debug", "info", "warn", "error", "fatal"}

LOG_LEVEL_PRIORITY == [debug |-> 0, info |-> 1, warn |-> 2, error |-> 3, fatal |-> 4]

TransportNames == {"console", "file", "mock"}

\* A transport instance: its name, its identity (a number among the
\* transports of the same creator), who constructed it, whether its log
\* operation throws, and whether it has a cleanup hook.
\* new ConsoleTransport({...})
ConsoleTransport(i) ==
  [name |-> "console", id |-> i, by |-> "logger", throws |-> FALSE, hook |-> FALSE]

\* new FileTransport({filePath})
FileTransport(i) ==
  [name |-> "file", id |-> i, by |-> "logger", throws |-> FALSE, hook |-> TRUE]

\* Transports the caller implements (the Transport interface): log() is the
\* caller's code and may throw; cleanup() is optional.
CallerTransports ==
  {[name |-> "mock", id |-> 1, by |-> "caller", throws |-> FALSE, hook |-> TRUE],
   [name |-> "mock", id |-> 2, by |-> "caller", throws |-> TRUE, hook |-> FALSE]}

\* The caller's transports whose log() returns normally.
ReliableTransports == {t \in CallerTransports : ~t.throws}

\* A context is a function from keys to values, each value a record.
EmptyContext == <<>>

\* Values of a context whose kind matters to the code.  A string is a sequence
\* of segments (see the section on serialization).
StringValue(s) == [t |-> "string", s |-> s]

SensitiveValue(v, r) == [t |-> "sensitive", value |-> v, redactedValue |-> r]

ObjectValue(f) == [t |-> "object", fields |-> f]

ArrayValue(e) == [t |-> "array", elems |-> e]

\* An Error object: its stack is given by its lines, the first of which
\* repeats the message; <<>> stands for an absent stack.
ErrorValue(message, lines) == [t |-> "error", message |-> message, stack |-> lines]

\* A line of a stack trace: leading whitespace, then text.
StackLine(indent, text) == [indent |-> indent, text |-> text]

\* value instanceof Error
IsError(v) == "t" \in DOMAIN v /\ v.t = "error"

Contexts == {EmptyContext, "user" :> [str |-> "alice"]}

\* The data argument of logWithSensitiveData.
Payloads == {"key" :> [str |-> "secret-api-key-12345"]}

\* SensitiveLoggingApproval: reason and approvedBy may be empty strings,
\* expiresAt is optional.
Approvals ==
  {a \in [reason : {"", "debugging"}, approvedBy : {"", "team"},
          hasExpiry : BOOLEAN, expiresAt : 0..MaxTime] :
     ~a.hasExpiry => a.expiresAt = 0}

\* Logger.log's level gate: LOG_LEVEL_PRIORITY[level] < LOG_LEVEL_PRIORITY[this.config.level]
BelowThresholdInclusive(L) == LOG_LEVEL_PRIORITY[L] <= LOG_LEVEL_PRIORITY[level]

BelowThreshold(L) == LOG_LEVEL_PRIORITY[L] < LOG_LEVEL_PRIORITY[level]

\* The registered transports whose log() throws.
Throwing == {i \in 1..Len(transports) : transports[i].throws}

\* The loop has no try/catch: it ends at the first transport.log() that throws.
Invoked ==
  IF Throwing = {}
  THEN Len(transports)
  ELSE CHOOSE i \in Throwing : \A j \in Throwing : i <= j

\* for (const transport of this.transports) transport.log(level, message, timestamp, processedContext)
Dispatch(L, msg, ctx) ==
  [i \in 1..Invoked |->
     [transport |-> transports[i], level |-> L, message |-> msg,
      timestamp |-> now, context |-> ctx]]

\* line.trim(), for a line that ends without whitespace
Trim(line) == line.text

\* formatError(error, includeStackTrace): the message and, when requested
\* and present, the stack without its first line, each line trimmed.
formatError(error, includeStackTrace) ==
  ("message" :> StringValue(error.message))
    @@ (IF includeStackTrace /\ error.stack # <<>>
        THEN "stack" :> StringValue([i \in 1..(Len(error.stack) - 1) |->
                                       Trim(error.stack[i + 1])])
        ELSE <<>>)

\* The truthiness of the second argument in formatError(context.error, this.config):
\* the argument is the config object, and every object is truthy.
IncludeStackTraceArgument == TRUE

\* let processedContext = { ...context }; if (context.error instanceof Error)
\* the formatted error is spread over the copy and the error key is deleted.
ProcessedContext(ctx) ==
  IF "error" \in DOMAIN ctx /\ IsError(ctx["error"])
  THEN LET spread == formatError(ctx["error"], IncludeStackTraceArgument) @@ ctx
       IN  [k \in DOMAIN spread \ {"error"} |-> spread[k]]
  ELSE ctx

\* Logger.log(level, message, context): the transport invocations it makes.
LoggerLog(L, msg, ctx) ==
  IF BelowThreshold(L) THEN <<>> ELSE Dispatch(L, msg, ProcessedContext(ctx))

\* Logger.log(level, message, context) ends with an exception.
LoggerLogThrows(L) == ~BelowThreshold(L) /\ Throwing # {}

\* log(level, msg, ctx)
LogCall(L, ctx) ==
  /\ delivered' = LoggerLog(L, "msg", ctx)
  /\ lastCall' = [op |-> "log", level |-> L, context |-> ctx]
  /\ threw' = LoggerLogThrows(L)
  /\ returned' = <<>>
  /\ cleanedUp' = <<>>
  /\ UNCHANGED <<level, config, transports, built, opened, now, formatter, ftVars, renderVars, ctxVars, qVars, fmtVars, genVars>>

\* debug(msg, ctx), info(msg, ctx), warn(msg, ctx), error(msg, ctx), fatal(msg, ctx)
LevelMethod(L, ctx) ==
  /\ delivered' = LoggerLog(L, "msg", ctx)
  /\ lastCall' = [op |-> "method", level |-> L, context |-> ctx]
  /\ threw' = LoggerLogThrows(L)
  /\ returned' = <<>>
  /\ cleanedUp' = <<>>
  /\ UNCHANGED <<level, config, transports, built, opened, now, formatter, ftVars, renderVars, ctxVars, qVars, fmtVars, genVars>>

\* logError(msg, error, additionalContext): this.log('error', msg, { ...additionalContext, error })
LogError(error, additionalContext) ==
  LET ctx == ("error" :> error) @@ additionalContext
  IN  /\ delivered' = LoggerLog("error", "msg", ctx)
      /\ lastCall' = [op |-> "logError", level |-> "error", context |-> ctx]
      /\ threw' = LoggerLogThrows("error")
      /\ returned' = <<>>
      /\ cleanedUp' = <<>>
      /\ UNCHANGED <<level, config, transports, built, opened, now, formatter, ftVars, renderVars,
                     ctxVars, qVars, fmtVars, genVars>>

\* The level of the audit entry: this.warn(...)
AuditLevelRequested(L) == L

AuditLevel(L) == "warn"

\* approval.expiresAt && new Date() > approval.expiresAt
ExpiredNever(a) == FALSE

Expired(a) == a.hasExpiry /\ now > a.expiresAt

\* !approval.reason || !approval.approvedBy
MissingApproval(a) == a.reason = "" \/ a.approvedBy = ""

\* contextWithApproval = {...data, __sensitive_data_approval__: {...}}
ContextWithApproval(data, a) ==
  data @@ ("__sensitive_data_approval__" :>
             [reason |-> a.reason, approvedBy |-> a.approvedBy, approvedAt |-> now,
              expiresAt |-> IF a.hasExpiry THEN <<a.expiresAt>> ELSE <<>>])

\* logWithSensitiveData(level, message, data, approval)
LogWithSensitiveData(L, data, a) ==
  /\ delivered' =
       IF MissingApproval(a)
       THEN LoggerLog(AuditLevel(L),
                      "Attempted to log sensitive data without proper approval",
                      "message" :> [str |-> "Missing required approval information. Sensitive data will not be logged."])
       ELSE IF Expired(a)
       THEN LoggerLog(AuditLevel(L),
                      "Attempted to log sensitive data with expired approval",
                      ("message" :> [str |-> "Approval has expired. Sensitive data will not be logged."])
                        @@ ("expiredAt" :> [date |-> a.expiresAt]))
       ELSE LoggerLog(L, "SENSITIVE DATA msg", ContextWithApproval(data, a))
  /\ lastCall' = [op |-> "sensitive", level |-> L, data |-> data, approval |-> a, at |-> now]
  /\ threw' = LoggerLogThrows(IF MissingApproval(a) \/ Expired(a) THEN AuditLevel(L) ELSE L)
  /\ returned' = <<>>
  /\ cleanedUp' = <<>>
  /\ UNCHANGED <<level, config, transports, built, opened, now, formatter, ftVars, renderVars, ctxVars, qVars, fmtVars, genVars>>

\* DEFAULT_LOGGER_CONFIG, without level: logToFile, logFilePath, and
\* prettyPrint for the display options (prettyPrint, colorize,
\* use24HourFormat, useRelativeTime, levelColors, levelIcons), and
\* includeStackTrace.
DEFAULT_LOGGER_CONFIG ==
  [logToFile |-> FALSE, logFilePath |-> "./app.log", prettyPrint |-> TRUE,
   includeStackTrace |-> TRUE]

\* A log file path whose directory exists or can be created
\* (ensureLogDirectoryExists and fs.createWriteStream do not throw).
Creatable(path) == path # "/proc/logs/app.log"

\* {...this.config, ...options}: the options other than level.
Merged(cfg, options) ==
  [k \in DOMAIN options \ {"level"} |-> options[k]] @@ cfg

\* {...this.config, ...options}: the level.
MergedLevelKept(lv, options) == lv

MergedLevel(lv, options) ==
  IF "level" \in DOMAIN options THEN options.level ELSE lv

\* this.config.transports && this.config.transports.length > 0
UsesCustomWhenDefined(cfg) == "transports" \in DOMAIN cfg

UsesCustom(cfg) == "transports" \in DOMAIN cfg /\ Len(cfg.transports) > 0

\* Logger.initializeTransports(): the new list, the number of transports
\* constructed so far and the FileTransports with an open stream, from the
\* configuration cfg, n transports constructed before and the open set op.
\* FileTransport.initialize() catches every exception, so the FileTransport
\* is pushed whether or not its stream could be opened.  The transports of
\* the old list are dropped without any call on them.
InitializedTransports(cfg, n, op) ==
  IF UsesCustom(cfg)
  THEN [transports |-> cfg.transports, built |-> n, opened |-> op]
  ELSE IF cfg.logToFile
  THEN [transports |-> <<ConsoleTransport(n + 1), FileTransport(n + 2)>>,
        built |-> n + 2,
        opened |-> IF Creatable(cfg.logFilePath)
                   THEN op \cup {FileTransport(n + 2)}
                   ELSE op]
  ELSE [transports |-> <<ConsoleTransport(n + 1)>>, built |-> n + 1, opened |-> op]

\* const transportConfigChanged = options.transports !== undefined || ...
TransportConfigAlwaysChanged(options) == TRUE

TransportConfigChanged(options) ==
  DOMAIN options \cap {"transports", "logToFile", "logFilePath", "prettyPrint"} # {}

\* The formatters: new TextFormatter() and new JsonFormatter().
TextFormatter == "TextFormatter"

JsonFormatter == "JsonFormatter"

\* this.formatter = this.config.formatter || new TextFormatter();
\* if (options.formatter) this.formatter = options.formatter
ConfiguredFormatter(options, otherwise) ==
  IF "formatter" \in DOMAIN options THEN options.formatter ELSE otherwise

\* Logger.configure(options), but for the record of the call.
ConfigureBody(options) ==
  LET cfg == Merged(config, options)
      new == InitializedTransports(cfg, built, opened)
  IN  /\ level' = MergedLevel(level, options)
      /\ config' = cfg
      /\ IF TransportConfigChanged(options)
         THEN /\ new.built <= MaxBuilt
              /\ transports' = new.transports
              /\ built' = new.built
              /\ opened' = new.opened
         ELSE UNCHANGED <<transports, built, opened>>
      /\ delivered' = <<>>
      /\ threw' = FALSE
      /\ returned' = <<>>
      /\ cleanedUp' = <<>>
      /\ formatter' = ConfiguredFormatter(options, formatter)
      /\ UNCHANGED <<now, ftVars, renderVars, ctxVars, qVars, fmtVars, genVars>>

\* configure(options), updateConfig(options)
Configure(options) ==
  /\ ConfigureBody(options)
  /\ lastCall' = [op |-> "configure", options |-> options,
                  dropped |-> Range(transports) \ Range(transports')]

\* setLevel(level): this.configure({ level })
SetLevel(M) ==
  /\ ConfigureBody([level |-> M])
  /\ lastCall' = [op |-> "setLevel", level |-> M]

\* addTransport(transport)
AddTransport(n) ==
  /\ Len(transports) < MaxTransports
  /\ transports' = Append(transports, n)
  /\ lastCall' = [op |-> "addTransport", transport |-> n]
  /\ delivered' = <<>>
  /\ threw' = FALSE
  /\ returned' = <<>>
  /\ cleanedUp' = <<>>
  /\ UNCHANGED <<level, config, built, opened, now, formatter, ftVars, renderVars, ctxVars, qVars, fmtVars, genVars>>

\* this.transports.filter(t => t.name !== name)
Filtered(n) == SelectSeq(transports, LAMBDA t : t.name # n)

\* return this.transports.length < initialLength
ShorterOrEqual(n) == Len(Filtered(n)) <= Len(transports)

Shorter(n) == Len(Filtered(n)) < Len(transports)

\* removeTransport(name)
RemoveTransport(n) ==
  /\ transports' = Filtered(n)
  /\ lastCall' = [op |-> "removeTransport", name |-> n]
  /\ delivered' = <<>>
  /\ threw' = FALSE
  /\ returned' = <<Shorter(n)>>
  /\ cleanedUp' = <<>>
  /\ UNCHANGED <<level, config, built, opened, now, formatter, ftVars, renderVars, ctxVars, qVars, fmtVars, genVars>>

\* for (const transport of this.transports) if (transport.cleanup) transport.cleanup()
HookedOrNot(ts) == ts

Hooked(ts) == SelectSeq(ts, LAMBDA t : t.hook)

\* Logger.cleanup(): the cleanup hook of every registered transport that has
\* one (FileTransport.cleanup ends its stream), then the list is emptied.
LoggerCleanup ==
  /\ cleanedUp' = Hooked(transports)
  /\ opened' = opened \ Range(transports)
  /\ transports' = <<>>
  /\ lastCall' = [op |-> "cleanup", registered |-> transports]
  /\ delivered' = <<>>
  /\ threw' = FALSE
  /\ returned' = <<>>
  /\ UNCHANGED <<level, config, built, now, formatter, ftVars, renderVars, ctxVars, qVars, fmtVars, genVars>>

\* Time passes between calls.
Tick ==
  /\ now < MaxTime
  /\ now' = now + 1
  /\ UNCHANGED <<level, config, transports, built, opened, cleanedUp, lastCall,
                 delivered, threw, returned, formatter, ftVars, renderVars, ctxVars, qVars, fmtVars, genVars>>

\* setFormatter(formatter)
SetFormatter(f) ==
  /\ formatter' = f
  /\ lastCall' = [op |-> "setFormatter", formatter |-> f]
  /\ delivered' = <<>>
  /\ threw' = FALSE
  /\ returned' = <<>>
  /\ cleanedUp' = <<>>
  /\ UNCHANGED <<level, config, transports, built, opened, now, ftVars, renderVars,
                 ctxVars, qVars, fmtVars, genVars>>

\* new Logger(options): the options are merged over the defaults and
\* initializeTransports() builds the list.
Constructed(lv, options) ==
  LET cfg == Merged(DEFAULT_LOGGER_CONFIG, options)
      new == InitializedTransports(cfg, 0, {})
  IN  /\ level = MergedLevel(lv, options)
      /\ config = cfg
      /\ transports = new.transports
      /\ built = new.built
      /\ opened = new.opened
      /\ cleanedUp = <<>>
      /\ now = 0
      /\ lastCall = [op |-> "new", options |-> options]
      /\ delivered = <<>>
      /\ threw = FALSE
      /\ returned = <<>>
      /\ formatter = ConfiguredFormatter(options, TextFormatter)

\* new Logger(): the default configuration registers the console transport.
InitLogger == Constructed("info", <<>>)

\* The rendering variables before any context has been rendered.
InitRender ==
  /\ rctx = EmptyContext
  /\ consoleOut = <<>>
  /\ fileOut = <<>>
  /\ rdone = {}

(***************************************************************************)
(* Serialization and redaction (utils.ts, sensitive/)                      *)
(*                                                                         *)
(* A string is a sequence of segments: Plain stands for text that matches  *)
(* no sensitive pattern, and the name of a pattern stands for a substring  *)
(* that matches that pattern.  Rendered text is a sequence of tokens.      *)
(***************************************************************************)
MaxDepth == 2       \* nesting depth of the values of a context

Plain == "plain"

\* SENSITIVE_PATTERNS, in declaration order (two of the ten patterns).
SENSITIVE_PATTERNS == <<"JWT", "PASSWORD">>

\* The default redactedValue of SensitiveValue and of redactSensitiveData.
REDACTED == "[REDACTED]"

\* containsSensitiveData(str): some pattern matches somewhere in str.
containsSensitiveData(str) ==
  \E i \in 1..Len(SENSITIVE_PATTERNS), j \in 1..Len(str) : str[j] = SENSITIVE_PATTERNS[i]

\* str.replace(pattern, redactedValue) with a pattern that has no g flag:
\* the first match only.
ReplaceWhole(str, p, r) == IF \E j \in 1..Len(str) : str[j] = p THEN <<r>> ELSE str

ReplaceFirst(str, p, r) ==
  IF \E j \in 1..Len(str) : str[j] = p
  THEN LET first == CHOOSE j \in 1..Len(str) :
                      str[j] = p /\ \A h \in 1..(j - 1) : str[h] # p
       IN  [str EXCEPT ![first] = r]
  ELSE str

RECURSIVE RedactFrom(_, _)
RedactFrom(str, i) ==
  IF i > Len(SENSITIVE_PATTERNS)
  THEN str
  ELSE RedactFrom(ReplaceFirst(str, SENSITIVE_PATTERNS[i], REDACTED), i + 1)

\* redactSensitiveData(str): each pattern in turn replaces its first match.
redactSensitiveData(str) == RedactFrom(str, 1)

\* SensitiveValue.toString() and toJSON(): the redacted value.
Unredacted(v) == v.value

Redacted(v) == v.redactedValue

\* JSON.stringify calls value.toJSON(), when the value has one, before the replacer.
ToJSON(v) == IF v.t = "sensitive" THEN StringValue(<<Redacted(v)>>) ELSE v

\* The replacer of safeStringify.  (The values of this model are trees: no
\* object occurs twice, so the seen set never reports a circular reference.)
Replacer(v) ==
  IF v.t = "sensitive"
  THEN StringValue(<<Redacted(v)>>)
  ELSE IF v.t = "string" /\ containsSensitiveData(v.s)
  THEN StringValue(redactSensitiveData(v.s))
  ELSE v

RECURSIVE Serialize(_)
RECURSIVE SerializeFields(_)
RECURSIVE SerializeElems(_)

\* JSON.stringify(obj, replacer, 2): property keys are written as they are,
\* every value goes through toJSON and the replacer.
Serialize(v) ==
  LET w == Replacer(ToJSON(v))
  IN  CASE w.t = "string" -> w.s
        [] w.t = "object" -> <<"{">> \o SerializeFields(w.fields) \o <<"}">>
        [] w.t = "array"  -> <<"[">> \o SerializeElems(w.elems) \o <<"]">>

SerializeFields(f) ==
  IF f = <<>> THEN <<>>
  ELSE <<Head(f).key>> \o Serialize(Head(f).val) \o SerializeFields(Tail(f))

SerializeElems(e) ==
  IF e = <<>> THEN <<>>
  ELSE Serialize(Head(e)) \o SerializeElems(Tail(e))

\* safeStringify(obj)
safeStringify(v) == Serialize(v)

\* String(value) of a string: the string itself.
StringOf(v) == v.s

RECURSIVE ConsoleContext(_)
\* ConsoleTransport.log: one line per context entry; objects are rendered
\* with safeStringify, anything else with String(value).
ConsoleContext(f) ==
  IF f = <<>> THEN <<>>
  ELSE <<Head(f).key>>
         \o (IF Head(f).val.t # "string"
             THEN safeStringify(Head(f).val)
             ELSE StringOf(Head(f).val))
         \o ConsoleContext(Tail(f))

\* FileTransport.log: the entry is suffixed with safeStringify(context) when
\* the context has keys.
FileContext(f) ==
  IF f = <<>> THEN <<>> ELSE <<"|">> \o safeStringify(ObjectValue(f))

\* The contexts rendered: one or two entries, whose values are strings,
\* SensitiveValues, or objects and arrays nesting them up to MaxDepth deep.
Strings ==
  {<<Plain>>, <<"JWT">>, <<Plain, "PASSWORD">>, <<"PASSWORD", Plain, "JWT">>,
   <<"PASSWORD", "PASSWORD">>}

Leaves ==
  {StringValue(s) : s \in Strings}
    \cup {SensitiveValue("secret", r) : r \in {REDACTED, "[HIDDEN]"}}

Nest(S) ==
  {ObjectValue(<<[key |-> "inner", val |-> v]>>) : v \in S}
    \cup {ArrayValue(<<v>>) : v \in S}

RECURSIVE Values(_)
Values(d) == IF d = 0 THEN Leaves ELSE Leaves \cup Nest(Values(d - 1))

RenderContexts ==
  {<<[key |-> "a", val |-> v]>> : v \in Values(MaxDepth)}
    \cup {<<[key |-> "a", val |-> v], [key |-> "b", val |-> w]>> :
            v \in Values(MaxDepth), w \in Leaves}

\* ConsoleTransport.log(level, message, timestamp, context)
ConsoleLog ==
  /\ "console" \notin rdone
  /\ consoleOut' = <<"msg">> \o ConsoleContext(rctx)
  /\ rdone' = rdone \cup {"console"}
  /\ UNCHANGED <<rctx, fileOut, ftVars, loggerVars, ctxVars, qVars, fmtVars, genVars>>

\* FileTransport.log(level, message, timestamp, context): the entry it queues.
FileLog ==
  /\ "file" \notin rdone
  /\ fileOut' = <<"msg">> \o FileContext(rctx)
  /\ rdone' = rdone \cup {"file"}
  /\ UNCHANGED <<rctx, consoleOut, ftVars, loggerVars, ctxVars, qVars, fmtVars, genVars>>

(***************************************************************************)
(* Request context (request-context.ts)                                    *)
(*                                                                         *)
(* requestContext is an AsyncLocalStorage: run(store, fn) makes store the  *)
(* current store for the synchronous execution of fn and restores the      *)
(* previous one when fn returns; an asynchronous continuation created      *)
(* while a store is current runs with that store current again.            *)
(***************************************************************************)
MaxBodies == 2      \* functions passed to runWithRequestContext

Bodies == 1..MaxBodies

\* getStore() outside every scope: undefined.
NoStore == [obj |-> 0, requestId |-> <<"none">>, requestStartTime |-> 0]

\* The existingRequestId argument: absent, null or undefined (<<>>), the
\* empty string, or an id taken from a header.
ExistingIds == {<<>>, <<"">>, <<"req-1">>}

\* Date.now(): milliseconds since the epoch, a positive number.
DateNow == now + 1

\* existingRequestId || randomUUID(): is the existing id used?
Truthy(existing) == existing # <<>> /\ existing[1] # ""

\* const store = { requestId: existingRequestId || randomUUID(), ... }: the
\* n-th store object; an absent, null or empty existing id is replaced.
NewStore(n, existing) ==
  [obj |-> n,
   requestId |-> IF Truthy(existing) THEN <<"given", existing[1]>> ELSE <<"uuid", n>>,
   requestStartTime |-> DateNow]

\* getRequestStore()?.requestId || 'unknown'
CurrentRequestId(store) ==
  IF store = NoStore \/ store.requestId = <<"given", "">>
  THEN <<"unknown">>
  ELSE store.requestId

\* getRequestStore()?.requestStartTime || Date.now()
CurrentTime(store) == DateNow

CurrentRequestStartTime(store) ==
  IF store = NoStore \/ store.requestStartTime = 0
  THEN DateNow
  ELSE store.requestStartTime

\* The body whose code is executing: 0 is code outside every body.
Caller == IF stack = <<>> THEN 0 ELSE stack[Len(stack)].body

Top == stack[Len(stack)]

Pop == SubSeq(stack, 1, Len(stack) - 1)

\* The store that is current once run() or a continuation has returned.
StoreKept(frame) == current

StoreRestored(frame) == frame.saved

\* The store that is current when the continuation of body b runs.
StoreOfLoop(b) == current

StoreCaptured(b) == bodies[b].captured

\* runWithRequestContext(fn, existingRequestId), called by the executing code:
\* requestContext.run(store, fn) enters fn with the new store current.
RunWithRequestContext(b, existing) ==
  /\ bodies[b].pc = "new"
  /\ created' = created + 1
  /\ current' = NewStore(created + 1, existing)
  /\ stack' = Append(stack, [body |-> b, saved |-> current])
  /\ bodies' = [bodies EXCEPT ![b] = [pc |-> "running", own |-> current',
                                      captured |-> NoStore, parent |-> Caller,
                                      resumed |-> FALSE, given |-> existing]]
  /\ UNCHANGED <<observed, ftVars, loggerVars, renderVars, qVars, fmtVars, genVars>>

\* getRequestStore(), getCurrentRequestId() and getCurrentRequestStartTime(),
\* called by the executing code.
GetRequestStore ==
  /\ observed' =
       [by |-> Caller,
        store |-> current,
        id |-> CurrentRequestId(current),
        startTime |-> CurrentRequestStartTime(current),
        at |-> DateNow,
        done |-> {b \in Bodies : bodies[b].pc = "done"},
        live |-> {b \in Bodies : bodies[b].pc \in {"running", "suspended"}} \ {Caller},
        resumed |-> Caller # 0 /\ bodies[Caller].resumed]
  /\ observed' # observed
  /\ UNCHANGED <<current, stack, bodies, created, ftVars, loggerVars, renderVars, qVars, fmtVars, genVars>>

\* The executing body reaches an await: its synchronous run ends, the
\* continuation it leaves behind keeps the store that is current.
Await(b) ==
  /\ stack # <<>>
  /\ Top.body = b
  /\ bodies' = [bodies EXCEPT ![b].pc = "suspended", ![b].captured = current]
  /\ current' = StoreRestored(Top)
  /\ stack' = Pop
  /\ UNCHANGED <<created, observed, ftVars, loggerVars, renderVars, qVars, fmtVars, genVars>>

\* The executing body returns.
Return(b) ==
  /\ stack # <<>>
  /\ Top.body = b
  /\ bodies' = [bodies EXCEPT ![b].pc = "done"]
  /\ current' = StoreRestored(Top)
  /\ stack' = Pop
  /\ UNCHANGED <<created, observed, ftVars, loggerVars, renderVars, qVars, fmtVars, genVars>>

\* The event loop runs the continuation of a suspended body.
ResumeBody(b) ==
  /\ stack = <<>>
  /\ bodies[b].pc = "suspended"
  /\ bodies' = [bodies EXCEPT ![b].pc = "running", ![b].resumed = TRUE]
  /\ stack' = <<[body |-> b, saved |-> current]>>
  /\ current' = StoreCaptured(b)
  /\ UNCHANGED <<created, observed, ftVars, loggerVars, renderVars, qVars, fmtVars, genVars>>

\* No runWithRequestContext call has been made.
InitContext ==
  /\ current = NoStore
  /\ stack = <<>>
  /\ bodies = [b \in Bodies |-> [pc |-> "new", own |-> NoStore, captured |-> NoStore,
                                 parent |-> 0, resumed |-> FALSE, given |-> <<>>]]
  /\ created = 0
  /\ observed = [by |-> 0, store |-> NoStore, id |-> <<"unknown">>, startTime |-> 0,
                 at |-> 0, done |-> {}, live |-> {}, resumed |-> FALSE]

(***************************************************************************)
(* QueryLogger (query-logger.ts)                                           *)
(***************************************************************************)
MaxQueries == 3     \* entries stored between two clearLogs() calls

\* DEFAULT_QUERY_LOGGER_CONFIG, outside production and without DEBUG_QUERIES.
DEFAULT_QUERY_LOGGER_CONFIG ==
  [enabled |-> TRUE, slowQueryThreshold |-> 100, maxLogs |-> 1000,
   logDebugQueries |-> FALSE]

\* The duration and database arguments of logQuery: the database is
\* undefined (<<>>), the empty string or a name.
Queries ==
  {[duration |-> 0, database |-> <<>>],
   [duration |-> 99, database |-> <<"pg">>],
   [duration |-> 100, database |-> <<"">>],
   [duration |-> 150, database |-> <<"pg">>]}

\* The options of new QueryLogger(logger, options).
QueryLoggerOptions == {[maxLogs |-> k] : k \in {0, 1, 2}}

\* The options of QueryLogger.configure(options).
QueryConfigureOptions ==
  {[maxLogs |-> 1], [maxLogs |-> 2], [slowQueryThreshold |-> 150],
   [logDebugQueries |-> TRUE], [enabled |-> FALSE], [enabled |-> TRUE]}

\* this.logs.shift(): the oldest entry is removed.
ShiftedNewest(logs) == SubSeq(logs, 1, Len(logs) - 1)

Shifted(logs) == Tail(logs)

\* this.logs.push(entry); if (this.logs.length > this.config.maxLogs) this.logs.shift()
Pushed(logs, entry) ==
  LET all == Append(logs, entry)
  IN  IF Len(all) > qconfig.maxLogs THEN Shifted(all) ELSE all

\* duration >= this.config.slowQueryThreshold
IsSlowStrictly(duration) == duration > qconfig.slowQueryThreshold

IsSlow(duration) == duration >= qconfig.slowQueryThreshold

\* The calls logQuery makes on the underlying logger, in order.
LoggerCalls(duration) ==
  (IF IsSlow(duration)
   THEN <<[level |-> "warn", message |-> "Slow query detected"]>>
   ELSE <<>>)
    \o (IF qconfig.logDebugQueries
        THEN <<[level |-> "debug", message |-> "Database query executed"]>>
        ELSE <<>>)

\* if (!this.config.enabled) return
DisabledNever == FALSE

Disabled == ~qconfig.enabled

\* logQuery(query, params, duration, database, requestId)
LogQuery(q) ==
  /\ Len(qsubmitted) < MaxQueries
  /\ IF Disabled
     THEN /\ qlast' = [op |-> "logQuery", query |-> q, enabled |-> FALSE, calls |-> <<>>]
          /\ UNCHANGED <<qlogs, qsubmitted>>
     ELSE /\ qlogs' = Pushed(qlogs, q)
          /\ qsubmitted' = Append(qsubmitted, q)
          /\ qlast' = [op |-> "logQuery", query |-> q, enabled |-> TRUE,
                       calls |-> LoggerCalls(q.duration)]
  /\ UNCHANGED <<qconfig, qstable, ftVars, loggerVars, renderVars, ctxVars, fmtVars, genVars>>

\* getLogs(): a copy of the buffer.
GetLogs ==
  /\ qlast' = [op |-> "getLogs", result |-> qlogs]
  /\ UNCHANGED <<qlogs, qconfig, qsubmitted, qstable, ftVars, loggerVars, renderVars,
                 ctxVars, fmtVars, genVars>>

\* clearLogs()
ClearLogs ==
  /\ qlogs' = <<>>
  /\ qsubmitted' = <<>>
  /\ qstable' = TRUE
  /\ qlast' = [op |-> "clearLogs"]
  /\ UNCHANGED <<qconfig, ftVars, loggerVars, renderVars, ctxVars, fmtVars, genVars>>

\* configure(options): this.config = {...this.config, ...options}
QueryConfigure(options) ==
  /\ qconfig' = options @@ qconfig
  /\ qstable' = (qstable /\ qconfig'.maxLogs = qconfig.maxLogs)
  /\ qlast' = [op |-> "configure", options |-> options]
  /\ UNCHANGED <<qlogs, qsubmitted, ftVars, loggerVars, renderVars, ctxVars, fmtVars, genVars>>

\* this.logs.reduce((sum, log) => sum + log.duration, 0)
RECURSIVE TotalDuration(_)
TotalDuration(logs) ==
  IF logs = <<>> THEN 0 ELSE Head(logs).duration + TotalDuration(Tail(logs))

\* Math.max(...this.logs.map((log) => log.duration))
RECURSIVE MaxDuration(_)
MaxDuration(logs) ==
  IF Len(logs) = 1 THEN Head(logs).duration
  ELSE LET rest == MaxDuration(Tail(logs))
       IN  IF Head(logs).duration > rest THEN Head(logs).duration ELSE rest

RECURSIVE GCD(_, _)
GCD(a, b) == IF b = 0 THEN a ELSE GCD(b, a % b)

\* The number total / count, as a fraction in lowest terms.
Quotient(total, count) ==
  [num |-> total \div GCD(total, count), den |-> count \div GCD(total, count)]

\* total > 0 ? total / count : 0
Average(total, count) == IF total > 0 THEN Quotient(total, count) ELSE [num |-> 0, den |-> 1]

\* const dbKey = log.database || 'unknown'
DbKeyOfDefined(log) == IF log.database = <<>> THEN "unknown" ELSE log.database[1]

DbKey(log) ==
  IF log.database = <<>> \/ log.database = <<"">> THEN "unknown" ELSE log.database[1]

\* The grouping loop of getStats and the averages computed from it.
ByDatabase(logs) ==
  [db \in {DbKey(logs[i]) : i \in 1..Len(logs)} |->
     LET group == SelectSeq(logs, LAMBDA log : DbKey(log) = db)
     IN  [count |-> Len(group),
          avgDuration |-> Average(TotalDuration(group), Len(group))]]

\* The value getStats() returns.
Stats(logs) ==
  IF Len(logs) = 0
  THEN [totalQueries |-> 0, slowQueries |-> 0, averageDuration |-> [num |-> 0, den |-> 1],
        maxDuration |-> 0, byDatabase |-> <<>>]
  ELSE [totalQueries |-> Len(logs),
        slowQueries |-> Len(SelectSeq(logs, LAMBDA log : IsSlow(log.duration))),
        averageDuration |-> Average(TotalDuration(logs), Len(logs)),
        maxDuration |-> MaxDuration(logs),
        byDatabase |-> ByDatabase(logs)]

\* getStats()
GetStats ==
  /\ qlast' = [op |-> "getStats", result |-> Stats(qlogs)]
  /\ UNCHANGED <<qlogs, qconfig, qsubmitted, qstable, ftVars, loggerVars, renderVars,
                 ctxVars, fmtVars, genVars>>

\* new QueryLogger(logger, options)
QueryLoggerConstructed(options) ==
  /\ qlogs = <<>>
  /\ qconfig = options @@ DEFAULT_QUERY_LOGGER_CONFIG
  /\ qlast = [op |-> "new"]
  /\ qsubmitted = <<>>
  /\ qstable = TRUE

InitQuery == QueryLoggerConstructed(<<>>)

(***************************************************************************)
(* JsonFormatter and the serialization of object graphs                    *)
(*                                                                         *)
(* JSON text is a sequence of characters.  A segment of a string stands    *)
(* for a run of characters that JSON writes as they are; the quote, the    *)
(* backslash and the newline are characters of their own, which JSON       *)
(* escapes.  The keys of an object are single segments.                    *)
(***************************************************************************)
NumberValue(n) == [t |-> "number", n |-> n]

DigitChars == <<"0", "1", "2", "3", "4", "5", "6", "7", "8", "9">>

RECURSIVE Digits(_)
\* The decimal digits of a non-negative integer.
Digits(n) ==
  IF n < 10 THEN <<DigitChars[n + 1]>>
  ELSE Digits(n \div 10) \o <<DigitChars[(n % 10) + 1]>>

\* The escape sequence JSON.stringify writes for a character of a string.
Unescaped(c) == <<c>>

Escaped(c) ==
  CASE c = "\"" -> <<"\\", "\"">>
    [] c = "\\" -> <<"\\", "\\">>
    [] c = "\n" -> <<"\\", "n">>
    [] OTHER -> <<c>>

RECURSIVE EscapeAll(_)
EscapeAll(s) == IF s = <<>> THEN <<>> ELSE Escaped(Head(s)) \o EscapeAll(Tail(s))

\* The JSON text of a string.
Quote(s) == <<"\"">> \o EscapeAll(s) \o <<"\"">>

RECURSIVE JSONStringify(_)
RECURSIVE StringifyMembers(_)
RECURSIVE StringifyElements(_)

\* JSON.stringify(value), without a replacer: value.toJSON() is called when
\* the value has one.
JSONStringify(v) ==
  LET w == ToJSON(v)
  IN  CASE w.t = "string" -> Quote(w.s)
        [] w.t = "number" -> Digits(w.n)
        [] w.t = "object" -> <<"{">> \o StringifyMembers(w.fields) \o <<"}">>
        [] w.t = "array"  -> <<"[">> \o StringifyElements(w.elems) \o <<"]">>

StringifyMembers(f) ==
  IF f = <<>> THEN <<>>
  ELSE Quote(<<Head(f).key>>) \o <<":">> \o JSONStringify(Head(f).val)
         \o (IF Tail(f) = <<>> THEN <<>> ELSE <<",">> \o StringifyMembers(Tail(f)))

StringifyElements(e) ==
  IF e = <<>> THEN <<>>
  ELSE JSONStringify(Head(e))
         \o (IF Tail(e) = <<>> THEN <<>> ELSE <<",">> \o StringifyElements(Tail(e)))

\* obj[key] = val: an existing property keeps its place, a new one is added last.
Assign(obj, key, val) ==
  IF \E i \in 1..Len(obj) : obj[i].key = key
  THEN [i \in 1..Len(obj) |-> IF obj[i].key = key THEN [key |-> key, val |-> val] ELSE obj[i]]
  ELSE Append(obj, [key |-> key, val |-> val])

RECURSIVE Spread(_, _)
\* { ...obj, ...src }
Spread(obj, src) ==
  IF src = <<>> THEN obj ELSE Spread(Assign(obj, Head(src).key, Head(src).val), Tail(src))

\* JsonFormatter.format(level, message, timestamp, context)
JsonFormatterFormat(lv, message, timestamp, context) ==
  JSONStringify(ObjectValue(Spread(<<[key |-> "level", val |-> StringValue(lv)],
                                     [key |-> "message", val |-> StringValue(message)],
                                     [key |-> "timestamp", val |-> StringValue(timestamp)]>>,
                                   context)))

\* TextFormatter.format(level, message, timestamp, context): the head of the
\* line, "[timestamp] LEVEL: message", is one token, as in FileLog.
TextFormatterFormat(lv, message, timestamp, context) ==
  message \o (IF context = <<>> THEN <<>> ELSE <<"|">> \o safeStringify(ObjectValue(context)))

\* formatter.format(level, message, timestamp, context)
FormatWith(f, lv, message, timestamp, context) ==
  IF f = JsonFormatter
  THEN JsonFormatterFormat(lv, message, timestamp, context)
  ELSE TextFormatterFormat(lv, message, timestamp, context)

\* The timestamp of the entries formatted: new Date().toISOString().
Timestamp == <<"2023-01-01T12:00:00.000Z">>


\* JSON.parse throws a SyntaxError.
SyntaxError == [val |-> [t |-> "SyntaxError"], next |-> 0]

IsDigit(c) == \E d \in 1..Len(DigitChars) : DigitChars[d] = c

DigitOf(c) == (CHOOSE d \in 1..Len(DigitChars) : DigitChars[d] = c) - 1

\* The character an escape sequence stands for.
UnescapeOf(c) == IF c = "n" THEN "\n" ELSE c

RECURSIVE ParseString(_, _, _)
\* The characters of a string, from position i (after the opening quote) up
\* to the closing quote.
ParseString(text, i, acc) ==
  IF i > Len(text) THEN SyntaxError
  ELSE IF text[i] = "\"" THEN [val |-> acc, next |-> i + 1]
  ELSE IF text[i] = "\\"
  THEN IF i + 1 > Len(text) THEN SyntaxError
       ELSE ParseString(text, i + 2, Append(acc, UnescapeOf(text[i + 1])))
  ELSE ParseString(text, i + 1, Append(acc, text[i]))

RECURSIVE ParseNumber(_, _, _)
ParseNumber(text, i, acc) ==
  IF i <= Len(text) /\ IsDigit(text[i])
  THEN ParseNumber(text, i + 1, acc * 10 + DigitOf(text[i]))
  ELSE [val |-> NumberValue(acc), next |-> i]

RECURSIVE ParseValue(_, _)
RECURSIVE ParseMembers(_, _, _)
RECURSIVE ParseElements(_, _, _)

\* The value that starts at position i of the text, and the position after it.
ParseValue(text, i) ==
  IF i > Len(text) THEN SyntaxError
  ELSE IF text[i] = "\""
  THEN LET r == ParseString(text, i + 1, <<>>)
       IN  IF r.next = 0 THEN SyntaxError ELSE [val |-> StringValue(r.val), next |-> r.next]
  ELSE IF text[i] = "{"
  THEN IF i + 1 <= Len(text) /\ text[i + 1] = "}"
       THEN [val |-> ObjectValue(<<>>), next |-> i + 2]
       ELSE ParseMembers(text, i + 1, <<>>)
  ELSE IF text[i] = "["
  THEN IF i + 1 <= Len(text) /\ text[i + 1] = "]"
       THEN [val |-> ArrayValue(<<>>), next |-> i + 2]
       ELSE ParseElements(text, i + 1, <<>>)
  ELSE IF IsDigit(text[i]) THEN ParseNumber(text, i, 0)
  ELSE SyntaxError

\* The members of an object from position i: "key":value, separated by commas
\* and closed by a brace.  A key that occurs again replaces the earlier value.
ParseMembers(text, i, acc) ==
  IF i > Len(text) \/ text[i] # "\"" THEN SyntaxError
  ELSE LET k == ParseString(text, i + 1, <<>>)
       IN  IF k.next = 0 \/ Len(k.val) # 1 \/ k.next > Len(text) \/ text[k.next] # ":"
           THEN SyntaxError
           ELSE LET v == ParseValue(text, k.next + 1)
                IN  IF v.next = 0 \/ v.next > Len(text) THEN SyntaxError
                    ELSE IF text[v.next] = ","
                    THEN ParseMembers(text, v.next + 1, Assign(acc, k.val[1], v.val))
                    ELSE IF text[v.next] = "}"
                    THEN [val |-> ObjectValue(Assign(acc, k.val[1], v.val)),
                          next |-> v.next + 1]
                    ELSE SyntaxError

ParseElements(text, i, acc) ==
  LET v == ParseValue(text, i)
  IN  IF v.next = 0 \/ v.next > Len(text) THEN SyntaxError
      ELSE IF text[v.next] = "," THEN ParseElements(text, v.next + 1, Append(acc, v.val))
      ELSE IF text[v.next] = "]"
      THEN [val |-> ArrayValue(Append(acc, v.val)), next |-> v.next + 1]
      ELSE SyntaxError

\* JSON.parse(text)
JSONParse(text) ==
  LET r == ParseValue(text, 1)
  IN  IF r.next = Len(text) + 1 THEN r.val ELSE SyntaxError.val

\* The messages, values and contexts formatted: strings with characters that
\* JSON escapes and with the characters of its own syntax, numbers, objects
\* and arrays; contexts of up to two entries, one of which may be named like
\* a fixed field.
JsonStrings ==
  {<<"hello">>, <<"say ", "\"", "hi", "\"">>, <<"a", "\\", "n">>, <<"one", "\n", "two">>,
   <<"}", ",", "\"", ":">>, <<>>}

JsonLeaves ==
  {StringValue(s) : s \in JsonStrings} \cup {NumberValue(n) : n \in {0, 7, 42, 120}}

JsonValues ==
  JsonLeaves
    \cup {ObjectValue(<<>>), ArrayValue(<<>>)}
    \cup {ObjectValue(<<[key |-> "id", val |-> v]>>) : v \in JsonLeaves}
    \cup {ArrayValue(<<v, NumberValue(7)>>) : v \in JsonLeaves}
    \cup {ObjectValue(<<[key |-> "id", val |-> NumberValue(42)],
                        [key |-> "tags", val |-> ArrayValue(<<v>>)]>>) : v \in JsonLeaves}

JsonContexts ==
  {<<>>}
    \cup {<<[key |-> k, val |-> v]>> : k \in {"userId", "level"}, v \in JsonValues}
    \cup {<<[key |-> "userId", val |-> NumberValue(120)], [key |-> "action", val |-> v]>> :
            v \in JsonValues}

\* formatter.format(level, message, timestamp, context) on a JsonFormatter
Format(lv, message, context) ==
  /\ formatted = <<>>
  /\ formatted' = [level |-> lv, message |-> message, timestamp |-> Timestamp,
                   context |-> context,
                   text |-> JsonFormatterFormat(lv, message, Timestamp, context)]
  /\ UNCHANGED <<stringified, ftVars, loggerVars, renderVars, ctxVars, qVars, genVars>>

\* The objects of a context that refers to its objects more than once.  An
\* object has an identity; a property holds a string or a reference.
ObjectIds == {"root", "x", "y"}

Ref(id) == [t |-> "ref", id |-> id]

GraphValues == {StringValue(<<Plain>>)} \cup {Ref(id) : id \in ObjectIds}

GraphObjects ==
  {<<>>}
    \cup {<<[key |-> "p", val |-> v]>> : v \in GraphValues}
    \cup {<<[key |-> "p", val |-> v], [key |-> "q", val |-> w]>> :
            v \in GraphValues, w \in GraphValues}

\* The heaps: every object with its properties, in insertion order.
Graphs == [ObjectIds -> GraphObjects]

\* The fixed marker the replacer returns for an object it has seen.
Circular == "[Circular]"

\* seen.has(value)
SeenNever(seen, id) == FALSE

SeenHas(seen, id) == id \in seen

\* JSON.stringify throws TypeError (Converting circular structure to JSON)
\* when the value the replacer returned is an object it is already inside.
TypeError == [text |-> <<>>, seen |-> {}, threw |-> TRUE]

RECURSIVE StringifyRef(_, _, _, _)
RECURSIVE StringifyProps(_, _, _, _)

\* JSON.stringify(obj, replacer, 2) of safeStringify on a heap: the replacer
\* sees each value before its properties are visited; seen is the replacer's
\* Set, path the objects JSON.stringify is inside of.
StringifyRef(g, v, seen, path) ==
  IF v.t = "string"
  THEN [text |-> Serialize(v), seen |-> seen, threw |-> FALSE]
  ELSE IF SeenHas(seen, v.id)
  THEN [text |-> <<Circular>>, seen |-> seen, threw |-> FALSE]
  ELSE IF v.id \in path
  THEN TypeError
  ELSE LET r == StringifyProps(g, g[v.id], seen \cup {v.id}, path \cup {v.id})
       IN  IF r.threw THEN TypeError
           ELSE [text |-> <<"{">> \o r.text \o <<"}">>, seen |-> r.seen, threw |-> FALSE]

StringifyProps(g, props, seen, path) ==
  IF props = <<>>
  THEN [text |-> <<>>, seen |-> seen, threw |-> FALSE]
  ELSE LET h == StringifyRef(g, Head(props).val, seen, path)
       IN  IF h.threw THEN TypeError
           ELSE LET r == StringifyProps(g, Tail(props), h.seen, path)
                IN  IF r.threw THEN TypeError
                    ELSE [text |-> <<Head(props).key>> \o h.text \o r.text,
                          seen |-> r.seen, threw |-> FALSE]

\* safeStringify(obj) where obj is the object "root" of the heap g: seen
\* starts empty.
safeStringifyGraph(g) == StringifyRef(g, Ref("root"), {}, {})

\* safeStringify(context) on a context whose objects are the heap g
StringifyGraph(g) ==
  /\ stringified = <<>>
  /\ LET r == safeStringifyGraph(g)
     IN  stringified' = [graph |-> g, text |-> r.text, threw |-> r.threw]
  /\ UNCHANGED <<formatted, ftVars, loggerVars, renderVars, ctxVars, qVars, genVars>>

\* No formatter or safeStringify call has been made.
InitFormat ==
  /\ formatted = <<>>
  /\ stringified = <<>>

(***************************************************************************)
(* runWithGenericContext (adapters/generic.ts)                             *)
(***************************************************************************)

\* The options of a call: logStartEnd absent (<<>>), true or false, and
\* requestId; loggerInstance is the Logger of this model.
GenericOptions ==
  [logStartEnd : {<<>>, <<TRUE>>, <<FALSE>>}, requestId : ExistingIds]

\* const logStartEnd = options.logStartEnd !== false
LogStartEnd(options) == options.logStartEnd # <<FALSE>>

\* What fn returns, what fn throws, and what a failing transport throws.
Result == "success"

FnError == "Task failed"

TransportError == "transport failed"

\* logger.info(...) or logger.error(...) with { contextName, requestId, ... }:
\* the call, and whether it ended with an exception.
LogEntry(name, L, store) ==
  [entry |-> name, requestId |-> store.requestId, threw |-> LoggerLogThrows(L)]

\* fn is inside the scope: what it begins or ends with, and the id it
\* reads through getRequestStore().
FnEvent(name, store) ==
  [entry |-> name, requestId |-> store.requestId, threw |-> FALSE]

\* catch (error) { logger.error(...); throw error }: the error entry and
\* how the promise is rejected; an exception of logger.error replaces error.
Caught(store, error) ==
  [trace |-> <<LogEntry("error", "error", store)>>,
   outcome |-> [kind |-> "rejected",
                error |-> IF LoggerLogThrows("error") THEN TransportError ELSE error]]

\* runWithGenericContext(fn, options), up to await fn(): the store is
\* created, the start entry is logged inside the try block, fn is called.
\* (The calls on the logger are recorded in gtrace.)
RunWithGenericContext(options) ==
  /\ gpc # "awaiting"
  /\ LET store == NewStore(1, options.requestId)
         start == IF LogStartEnd(options) THEN <<LogEntry("start", "info", store)>> ELSE <<>>
     IN  /\ gopts' = options
         /\ gstore' = store
         /\ IF LogStartEnd(options) /\ LoggerLogThrows("info")
            THEN LET c == Caught(store, TransportError)
                 IN  /\ gtrace' = start \o c.trace
                     /\ goutcome' = c.outcome
                     /\ gpc' = "settled"
            ELSE /\ gtrace' = start \o <<FnEvent("fnBegin", store)>>
                 /\ goutcome' = <<>>
                 /\ gpc' = "awaiting"
  /\ UNCHANGED <<ftVars, loggerVars, renderVars, ctxVars, qVars, fmtVars>>

\* fn's promise settles and runWithGenericContext resumes after await fn():
\* the finish entry and the result, or the catch block.
FnSettles(resolved) ==
  /\ gpc = "awaiting"
  /\ gpc' = "settled"
  /\ IF resolved
     THEN IF LogStartEnd(gopts)
          THEN IF LoggerLogThrows("info")
               THEN LET c == Caught(gstore, TransportError)
                    IN  /\ gtrace' = gtrace \o <<FnEvent("fnResolved", gstore),
                                                 LogEntry("finish", "info", gstore)>> \o c.trace
                        /\ goutcome' = c.outcome
               ELSE /\ gtrace' = gtrace \o <<FnEvent("fnResolved", gstore),
                                             LogEntry("finish", "info", gstore)>>
                    /\ goutcome' = [kind |-> "resolved", value |-> Result]
          ELSE /\ gtrace' = Append(gtrace, FnEvent("fnResolved", gstore))
               /\ goutcome' = [kind |-> "resolved", value |-> Result]
     ELSE LET c == Caught(gstore, FnError)
          IN  /\ gtrace' = Append(gtrace, FnEvent("fnThrew", gstore)) \o c.trace
              /\ goutcome' = c.outcome
  /\ UNCHANGED <<gopts, gstore, ftVars, loggerVars, renderVars, ctxVars, qVars, fmtVars>>

\* No runWithGenericContext call has been made.
InitGeneric ==
  /\ gpc = "idle"
  /\ gopts = <<>>
  /\ gstore = NoStore
  /\ gtrace = <<>>
  /\ goutcome = <<>>

(***************************************************************************)
(* Specifications                                                          *)
(***************************************************************************)
\* new FileTransport(options)
InitFileTransport ==
  /\ fileStream = 0
  /\ logQueue = <<>>
  /\ isProcessingQueue = FALSE
  /\ streams = <<>>
  /\ waiters = <<>>
  /\ resumed = 0
  /\ written = <<>>
  /\ submitted = <<>>
  /\ blocked = FALSE
  /\ cleanedStream = 0
  /\ quota = MaxEntries
  /\ backpressure = "any"

\* A FileTransport under every interleaving of its calls and stream events.
Init ==
  /\ InitFileTransport
  /\ InitLogger
  /\ InitRender
  /\ InitContext
  /\ InitQuery
  /\ InitFormat
  /\ InitGeneric

Next ==
  \/ Initialize
  \/ Log
  \/ \E s \in 1..MaxStreams : Ready(s)
  \/ \E s \in 1..MaxStreams : Drain(s)
  \/ Resume
  \/ \E s \in 1..MaxStreams : StreamError(s)
  \/ Cleanup

Spec == Init /\ [][Next]_vars

\* An initialized FileTransport whose stream returns false from every write
\* and emits 'drain' after each; the caller submits quota entries.
InitBackpressure ==
  /\ fileStream = 1
  /\ logQueue = <<>>
  /\ isProcessingQueue = FALSE
  /\ streams = <<NewStream>>
  /\ waiters = <<>>
  /\ resumed = 0
  /\ written = <<>>
  /\ submitted = <<>>
  /\ blocked = FALSE
  /\ cleanedStream = 0
  /\ quota \in 1..MaxSubmitted
  /\ backpressure = "always"
  /\ InitLogger
  /\ InitRender
  /\ InitContext
  /\ InitQuery
  /\ InitFormat
  /\ InitGeneric

NextBackpressure ==
  \/ Log
  \/ Ready(1)
  \/ Drain(1)
  \/ Resume

\* The caller makes its quota of log() calls, the stream emits the 'drain' it
\* owes, and the microtask queue runs.
SpecBackpressure ==
  /\ InitBackpressure
  /\ [][NextBackpressure]_vars
  /\ WF_vars(Log)
  /\ WF_vars(Drain(1))
  /\ WF_vars(Resume)

\* An initialized FileTransport whose stream fails at most once, at any
\* moment, and which is initialized again after the failure.
InitRecovery ==
  /\ fileStream = 1
  /\ logQueue = <<>>
  /\ isProcessingQueue = FALSE
  /\ streams = <<NewStream>>
  /\ waiters = <<>>
  /\ resumed = 0
  /\ written = <<>>
  /\ submitted = <<>>
  /\ blocked = FALSE
  /\ cleanedStream = 0
  /\ quota \in 1..MaxEntries
  /\ backpressure = "any"
  /\ InitLogger
  /\ InitRender
  /\ InitContext
  /\ InitQuery
  /\ InitFormat
  /\ InitGeneric

\* The 'error' event of the stream in use, the first failure of any stream.
FirstError ==
  /\ fileStream # 0
  /\ \A s \in 1..Len(streams) : ~streams[s].errored
  /\ StreamError(fileStream)

\* initialize() called again once the transport has lost its stream.
Reinitialize ==
  /\ fileStream = 0
  /\ Initialize

NextRecovery ==
  \/ Log
  \/ \E s \in 1..MaxStreams : Ready(s)
  \/ \E s \in 1..MaxStreams : Drain(s)
  \/ Resume
  \/ FirstError
  \/ Reinitialize

\* The caller makes its quota of log() calls and calls initialize() after a
\* failure; a stream emits the 'ready' and 'drain' events it owes, and the
\* microtask queue runs.
SpecRecovery ==
  /\ InitRecovery
  /\ [][NextRecovery]_vars
  /\ WF_vars(Log)
  /\ WF_vars(\E s \in 1..MaxStreams : Ready(s))
  /\ WF_vars(\E s \in 1..MaxStreams : Drain(s))
  /\ WF_vars(Resume)
  /\ WF_vars(Reinitialize)

\* A Logger constructed with any minimum level, under every sequence of calls.
InitLoggerSpec ==
  /\ InitFileTransport
  /\ InitRender
  /\ InitContext
  /\ InitQuery
  /\ InitFormat
  /\ InitGeneric
  /\ \E lv \in LogLevels : Constructed(lv, <<>>)

NextLogger ==
  \/ \E L \in LogLevels, c \in Contexts : LogCall(L, c)
  \/ \E L \in LogLevels, c \in Contexts : LevelMethod(L, c)
  \/ \E L \in LogLevels, d \in Payloads, a \in Approvals : LogWithSensitiveData(L, d, a)
  \/ \E M \in LogLevels : SetLevel(M)
  \/ \E n \in ReliableTransports : AddTransport(n)
  \/ \E n \in TransportNames : RemoveTransport(n)
  \/ Tick

SpecLogger == InitLoggerSpec /\ [][NextLogger]_vars

\* The option objects passed to new Logger(options) and configure(options).
Options ==
  {<<>>,
   [level |-> "error"],
   [prettyPrint |-> TRUE],
   [logToFile |-> FALSE],
   [logToFile |-> TRUE, logFilePath |-> "./app.log"],
   [logToFile |-> TRUE, logFilePath |-> "/proc/logs/app.log"],
   [transports |-> <<>>],
   [transports |-> <<CHOOSE t \in CallerTransports : t.throws,
                     CHOOSE t \in CallerTransports : ~t.throws>>]}

\* A Logger constructed with any of the option objects, then configured,
\* given and deprived of transports, used and cleaned up in any order.
InitConfig ==
  /\ InitFileTransport
  /\ InitRender
  /\ InitContext
  /\ InitQuery
  /\ InitFormat
  /\ InitGeneric
  /\ \E options \in Options : Constructed("info", options)

NextConfig ==
  \/ LogCall("info", EmptyContext)
  \/ LevelMethod("error", EmptyContext)
  \/ \E options \in Options : Configure(options)
  \/ \E M \in {"info", "error"} : SetLevel(M)
  \/ \E n \in CallerTransports : AddTransport(n)
  \/ \E n \in TransportNames : RemoveTransport(n)
  \/ LoggerCleanup

SpecConfig == InitConfig /\ [][NextConfig]_vars

\* Functions run in request contexts, nested and interleaved in any way.
InitContextSpec ==
  /\ InitFileTransport
  /\ InitLogger
  /\ InitRender
  /\ InitContext
  /\ InitQuery
  /\ InitFormat
  /\ InitGeneric

NextContext ==
  \/ \E b \in Bodies, existing \in {<<>>, <<"req-1">>} : RunWithRequestContext(b, existing)
  \/ GetRequestStore
  \/ \E b \in Bodies : Await(b)
  \/ \E b \in Bodies : Return(b)
  \/ \E b \in Bodies : ResumeBody(b)

SpecContext == InitContextSpec /\ [][NextContext]_vars

\* One log call whose context is handed to the console and file transports.
InitRenderSpec ==
  /\ InitFileTransport
  /\ InitLogger
  /\ InitContext
  /\ InitQuery
  /\ InitFormat
  /\ InitGeneric
  /\ rctx \in RenderContexts
  /\ consoleOut = <<>>
  /\ fileOut = <<>>
  /\ rdone = {}

NextRender ==
  \/ ConsoleLog
  \/ FileLog

SpecRender == InitRenderSpec /\ [][NextRender]_vars

\* The QueryLogger: constructed with a small capacity, then any sequence of
\* its operations.
InitQuerySpec ==
  /\ InitFileTransport
  /\ InitLogger
  /\ InitRender
  /\ InitContext
  /\ \E options \in QueryLoggerOptions : QueryLoggerConstructed(options)
  /\ InitFormat
  /\ InitGeneric

NextQuery ==
  \/ \E q \in Queries : LogQuery(q)
  \/ GetLogs
  \/ ClearLogs
  \/ \E options \in QueryConfigureOptions : QueryConfigure(options)
  \/ GetStats

SpecQuery == InitQuerySpec /\ [][NextQuery]_vars


\* Errors passed to the logger: with a two-line stack and without a stack.
Errors ==
  {ErrorValue(<<Plain>>, <<StackLine(0, Plain), StackLine(4, Plain)>>),
   ErrorValue(<<Plain>>, <<>>)}

\* Contexts passed to log(): an Error under the key error and under another
\* key, a string under the key error, and a string that matches a pattern.
LogContexts ==
  {"error" :> e : e \in Errors}
    \cup {"cause" :> e : e \in Errors}
    \cup {"error" :> StringValue(<<Plain>>), "token" :> StringValue(<<Plain, "PASSWORD">>)}

\* The includeStackTrace option of new Logger(options) and configure(options).
StackTraceOptions == {[includeStackTrace |-> b] : b \in BOOLEAN}

\* A Logger constructed with or without stack traces, reconfigured, given
\* the caller's transports and handed contexts that carry errors.
InitProcessing ==
  /\ InitFileTransport
  /\ InitRender
  /\ InitContext
  /\ InitQuery
  /\ InitFormat
  /\ InitGeneric
  /\ \E options \in StackTraceOptions : Constructed("info", options)

NextProcessing ==
  \/ \E ctx \in LogContexts : LogCall("info", ctx)
  \/ \E error \in Errors, ctx \in {EmptyContext, "user" :> StringValue(<<Plain>>)} :
       LogError(error, ctx)
  \/ \E options \in StackTraceOptions : Configure(options)
  \/ \E n \in ReliableTransports : AddTransport(n)
  \/ \E n \in TransportNames : RemoveTransport(n)
  \/ Tick

SpecProcessing == InitProcessing /\ [][NextProcessing]_vars

\* Scopes entered with every kind of existing id, nested synchronously, and
\* the accessors called inside and outside them while time passes.
InitScopes ==
  /\ InitFileTransport
  /\ InitLogger
  /\ InitRender
  /\ InitContext
  /\ InitQuery
  /\ InitFormat
  /\ InitGeneric

NextScopes ==
  \/ \E b \in Bodies, existing \in ExistingIds : RunWithRequestContext(b, existing)
  \/ GetRequestStore
  \/ \E b \in Bodies : Return(b)
  \/ Tick

SpecScopes == InitScopes /\ [][NextScopes]_vars

\* The formatter option of new Logger(options) and configure(options).
Formatters == {TextFormatter, JsonFormatter}

FormatterOptions == {<<>>} \cup {[formatter |-> f] : f \in Formatters}

\* The contexts rendered after the formatter was chosen.
FormatterContexts == {<<>>} \cup {c \in RenderContexts : Len(c) = 1}

\* A Logger constructed with or without a formatter, given another one by
\* setFormatter or configure, and one entry rendered by its console and file
\* transports.
InitFormatter ==
  /\ InitFileTransport
  /\ InitContext
  /\ InitQuery
  /\ InitFormat
  /\ InitGeneric
  /\ \E options \in FormatterOptions : Constructed("info", options)
  /\ rctx \in FormatterContexts
  /\ consoleOut = <<>>
  /\ fileOut = <<>>
  /\ rdone = {}

NextFormatter ==
  \/ \E f \in Formatters : SetFormatter(f)
  \/ \E f \in Formatters : Configure([formatter |-> f])
  \/ ConsoleLog
  \/ FileLog

SpecFormatter == InitFormatter /\ [][NextFormatter]_vars

\* JsonFormatter.format applied to every message and context of the model.
InitJson ==
  /\ InitFileTransport
  /\ InitLogger
  /\ InitRender
  /\ InitContext
  /\ InitQuery
  /\ InitFormat
  /\ InitGeneric

\* No safeStringify call has been made.
InitGraph ==
  /\ InitFileTransport
  /\ InitLogger
  /\ InitRender
  /\ InitContext
  /\ InitQuery
  /\ InitFormat
  /\ InitGeneric

NextGraph ==
  \E g \in Graphs : StringifyGraph(g)

SpecGraph == InitGraph /\ [][NextGraph]_vars

\* options.loggerInstance is a Logger constructed with the defaults.
InitGenericSpec ==
  /\ InitFileTransport
  /\ InitLogger
  /\ InitRender
  /\ InitContext
  /\ InitQuery
  /\ InitFormat
  /\ InitGeneric

NextGeneric ==
  \/ \E options \in GenericOptions : RunWithGenericContext(options)
  \/ \E resolved \in BOOLEAN : FnSettles(resolved)
  \/ \E n \in CallerTransports : AddTransport(n)
  \/ \E n \in TransportNames : RemoveTransport(n)
  \/ Tick

SpecGeneric == InitGenericSpec /\ [][NextGeneric]_vars

NextJson ==
  \E lv \in {<<"info">>, <<"error">>}, message \in JsonStrings, context \in JsonContexts :
    Format(lv, message, context)

SpecJson == InitJson /\ [][NextJson]_vars

(***************************************************************************)
(* Claims about the FileTransport                                          *)
(***************************************************************************)
\* The drain loops in existence: suspended at the await, or resumed and pending.
NumLoops == Len(waiters) + resumed

\* The entries written, in the order of the write() calls.
WrittenEntries == [i \in 1..Len(written) |-> written[i].e]

Increasing(s) == \A i, j \in 1..Len(s) : i < j => s[i] < s[j]

C3_AllEventuallyWritten ==
  <>(/\ Len(submitted) = quota
     /\ WrittenEntries = submitted
     /\ logQueue = <<>>)

C3_Witness ==
  /\ backpressure = "always"
  /\ quota = MaxSubmitted
  /\ Len(submitted) = quota
  /\ WrittenEntries = submitted
  /\ logQueue = <<>>
  /\ ~isProcessingQueue

\* C4: every entry accepted by log() is still in the queue or has been
\* written: none leaves the queue without being written.
C4_NoEntryDropped ==
  \A e \in Range(submitted) : e \in Range(logQueue) \/ e \in Range(WrittenEntries)

C6_CleanupFlushesEveryEntry ==
  cleanedStream # 0 =>
    /\ logQueue = <<>>
    /\ \A e \in Range(submitted) :
         \E i \in 1..Len(written) : written[i].e = e /\ written[i].open

\* The stream failed and initialize() has opened a new one.
Reinitialized ==
  /\ \E s \in 1..Len(streams) : streams[s].errored
  /\ fileStream # 0

\* C14: after an error of the stream the accepted entries stay queued, and
\* once initialize() has been called again every entry in the queue is
\* eventually written, the written entries being in submission order.
C14_RecoversAfterError ==
  \A e \in 1..MaxEntries :
    (Reinitialized /\ e \in Range(logQueue))
      ~> (e \in Range(WrittenEntries) /\ Increasing(WrittenEntries))

(***************************************************************************)
(* Claims about the Logger                                                 *)
(***************************************************************************)
\* One invocation per registered transport, in registration order, at level L.
OnePerTransport(L) ==
  /\ Len(delivered) = Len(transports)
  /\ \A i \in 1..Len(delivered) :
       delivered[i].transport = transports[i] /\ delivered[i].level = L

ContainsPayload(inv, data) ==
  \E k \in DOMAIN inv.context, d \in DOMAIN data : inv.context[k] = data[d]

PayloadDelivered ==
  \E i \in 1..Len(delivered) : ContainsPayload(delivered[i], lastCall.data)

\* C9 as stated: the data payload reaches a transport only if reason and
\* approvedBy are non-empty and expiresAt is absent or strictly later than
\* the time of the call.
C9_PayloadOnlyIfStrictlyUnexpired ==
  (lastCall.op = "sensitive" /\ PayloadDelivered) =>
    /\ lastCall.approval.reason # ""
    /\ lastCall.approval.approvedBy # ""
    /\ ~lastCall.approval.hasExpiry \/ lastCall.approval.expiresAt > lastCall.at

\* C9 (amended): the data payload reaches a transport only if reason and
\* approvedBy are non-empty and expiresAt is absent or not earlier than the
\* time of the call; in every other case no invocation carries the payload.
C9_PayloadOnlyIfApproved ==
  (lastCall.op = "sensitive" /\ PayloadDelivered) =>
    /\ lastCall.approval.reason # ""
    /\ lastCall.approval.approvedBy # ""
    /\ ~lastCall.approval.hasExpiry \/ lastCall.approval.expiresAt >= lastCall.at

C9_Witness ==
  /\ lastCall.op = "sensitive"
  /\ PayloadDelivered
  /\ lastCall.approval.hasExpiry
  /\ lastCall.approval.expiresAt = lastCall.at
  /\ lastCall.at > 0

\* The approval of the last logWithSensitiveData call was invalid: an empty
\* reason, an empty approvedBy, or an expiresAt earlier than the call.
InvalidApproval ==
  /\ lastCall.op = "sensitive"
  /\ \/ lastCall.approval.reason = ""
     \/ lastCall.approval.approvedBy = ""
     \/ lastCall.approval.hasExpiry /\ lastCall.approval.expiresAt < lastCall.at

AuditMessages ==
  {"Attempted to log sensitive data without proper approval",
   "Attempted to log sensitive data with expired approval"}

\* Exactly one warning-level audit entry for each registered transport, and
\* nothing else.
OneAuditPerTransport ==
  /\ OnePerTransport("warn")
  /\ \A i \in 1..Len(delivered) : delivered[i].message \in AuditMessages

C11_FailureContained ==
  lastCall.op \in {"log", "method"} =>
    /\ ~threw
    /\ LOG_LEVEL_PRIORITY[lastCall.level] >= LOG_LEVEL_PRIORITY[level] =>
         \A i \in 1..Len(transports) :
           \E j \in 1..Len(delivered) : delivered[j].transport = transports[i]

\* The last operation built the transport list from the configuration: the
\* constructor, or a configure() whose options set the explicit transport
\* list, the file-enabled flag, the file path or a display option.
RebuildingKeys == {"transports", "logToFile", "logFilePath", "prettyPrint"}

Rebuilt ==
  \/ lastCall.op = "new"
  \/ lastCall.op = "configure" /\ DOMAIN lastCall.options \cap RebuildingKeys # {}

\* C15: when the Logger is constructed or reconfigured with file logging
\* enabled and the directory or stream of the log file cannot be created,
\* nothing is thrown and the transport list holds the console transport and
\* no file transport.
C15_FallsBackToConsole ==
  (/\ Rebuilt
   /\ config.logToFile
   /\ "transports" \notin DOMAIN config
   /\ config.logFilePath = "/proc/logs/app.log") =>
    /\ ~threw
    /\ \E i \in 1..Len(transports) : transports[i].name = "console"
    /\ \A i \in 1..Len(transports) : transports[i].name # "file"

\* The explicit transport list of the merged configuration is non-empty.
ExplicitList(cfg) ==
  IF "transports" \in DOMAIN cfg THEN cfg.transports # <<>> ELSE FALSE

\* ts is the list derived from cfg, its built-in transports being instances
\* constructed after the first n.
DerivedList(ts, cfg, n) ==
  IF ExplicitList(cfg)
  THEN ts = cfg.transports
  ELSE /\ Len(ts) = IF cfg.logToFile THEN 2 ELSE 1
       /\ ts[1].name = "console" /\ ts[1].by = "logger" /\ ts[1].id > n
       /\ cfg.logToFile =>
            ts[2].name = "file" /\ ts[2].by = "logger" /\ ts[2].id > n

\* C16: at construction, and after every configure(options) whose options
\* set the explicit transport list, the file-enabled flag, the file path or a
\* display option, the transport list is the explicit list of the merged
\* configuration if that is non-empty, and otherwise a newly built console
\* transport followed by a newly built file transport if and only if file
\* logging is enabled; no other transport is in it.
C16_ListDerivedFromConfig ==
  /\ DerivedList(transports, config, 0)
  /\ [][(lastCall'.op = "configure" /\ DOMAIN lastCall'.options \cap RebuildingKeys # {})
          => DerivedList(transports', config', built)]_vars

C16_Witness ==
  /\ lastCall.op = "configure"
  /\ lastCall.options = [logToFile |-> TRUE, logFilePath |-> "./app.log"]
  /\ \E t \in lastCall.dropped : t.by = "caller"
  /\ Len(transports) = 2
  /\ transports[1].name = "console" /\ transports[1].id > 1
  /\ transports[2].name = "file"

\* C17: when configure() rebuilds the transport list, the cleanup hook of
\* every transport it discards that has one is invoked, and no discarded
\* file transport is left with an open stream.
C17_DiscardedAreTornDown ==
  (lastCall.op = "configure" /\ DOMAIN lastCall.options \cap RebuildingKeys # {}) =>
    \A t \in lastCall.dropped : t.hook => (t \in Range(cleanedUp) /\ t \notin opened)

\* C18: configure({}) leaves the transport list as it was: the same
\* instances in the same order.
C18_EmptyConfigureKeepsTransports ==
  [][(lastCall'.op = "configure" /\ DOMAIN lastCall'.options = {})
       => transports' = transports]_vars

C18_Witness ==
  /\ lastCall.op = "configure"
  /\ DOMAIN lastCall.options = {}
  /\ Len(transports) = 2
  /\ transports[1].by = "logger"
  /\ transports[2].by = "caller"
  /\ built > 1

\* C19: setLevel(L) sets the minimum level to L and changes neither the
\* transport list nor any other option, as configure({level: L}) does, and
\* the log call that follows is filtered by L.
C19_SetLevelChangesOnlyLevel ==
  [][/\ lastCall'.op = "setLevel" =>
          /\ level' = lastCall'.level
          /\ transports' = transports
          /\ config' = config
          /\ built' = built /\ opened' = opened
     /\ (lastCall'.op = "configure" /\ DOMAIN lastCall'.options = {"level"}) =>
          /\ level' = lastCall'.options.level
          /\ transports' = transports
          /\ config' = config
          /\ built' = built /\ opened' = opened
     /\ (lastCall.op = "setLevel" /\ lastCall'.op \in {"log", "method"}) =>
          IF LOG_LEVEL_PRIORITY[lastCall'.level] < LOG_LEVEL_PRIORITY[lastCall.level]
          THEN delivered' = <<>>
          ELSE transports # <<>> =>
                 (delivered' # <<>> /\ delivered'[1].level = lastCall'.level)]_vars

C19_Witness ==
  /\ lastCall.op = "setLevel"
  /\ lastCall.level = "error"
  /\ level = "error"
  /\ Len(transports) = 2
  /\ transports[1].by = "logger"
  /\ transports[2].by = "caller"

\* C20: addTransport(t) appends t to the list, removeTransport(name) deletes
\* the transports of that name, the other transports keeping their identity
\* and order, and removeTransport returns true if and only if a transport
\* of that name was registered.
C20_AddAppendsRemoveFilters ==
  [][/\ lastCall'.op = "addTransport" =>
          transports' = transports \o <<lastCall'.transport>>
     /\ lastCall'.op = "removeTransport" =>
          /\ transports' = SelectSeq(transports, LAMBDA t : t.name # lastCall'.name)
          /\ returned' = <<\E i \in 1..Len(transports) :
                              transports[i].name = lastCall'.name>>]_vars

C20_Witness ==
  /\ lastCall.op = "removeTransport"
  /\ lastCall.name = "mock"
  /\ returned = <<TRUE>>
  /\ Len(transports) = 1
  /\ transports[1].name = "console"

(***************************************************************************)
(* Claims about the request context                                        *)
(***************************************************************************)
\* The store runWithRequestContext created for body b; none for code outside.
OwnStore(b) == IF b = 0 THEN NoStore ELSE bodies[b].own

\* The code that called the i-th run() in progress.
Enclosing(i) == IF i = 1 THEN 0 ELSE stack[i - 1].body

\* C12: with scopes nested in any way, the code that is executing sees the
\* store of the innermost scope it is in (none outside every scope), a nested
\* scope's store is a fresh one and not that of an enclosing scope, the
\* store visible again when a scope returns is the one of the code that
\* called it, and getRequestStore()/getCurrentRequestId() return the
\* caller's own store and its id.
C12_NestedScopesShadow ==
  /\ current = OwnStore(Caller)
  /\ \A i \in 1..Len(stack) : stack[i].saved = OwnStore(Enclosing(i))
  /\ \A i, j \in 1..Len(stack) :
       i < j => OwnStore(stack[i].body).obj # OwnStore(stack[j].body).obj
  /\ observed.store = OwnStore(observed.by)
  /\ observed.id = IF observed.by = 0 THEN <<"unknown">> ELSE observed.store.requestId

C12_Witness ==
  /\ Len(stack) = 1
  /\ observed.by = Caller
  /\ ~observed.resumed
  /\ observed.store = OwnStore(Caller)
  /\ \E inner \in observed.done :
       /\ bodies[inner].parent = Caller
       /\ bodies[inner].own.obj # observed.store.obj
       /\ bodies[inner].own.obj # 0

\* C13: a getRequestStore()/getCurrentRequestId() call made in a body while
\* other scopes are active, before or after a suspension of the body,
\* returns the body's own store and the store of no other active scope.
C13_SiblingScopesIsolated ==
  (observed.by # 0 /\ observed.live # {}) =>
    /\ observed.store.obj = bodies[observed.by].own.obj
    /\ observed.id = bodies[observed.by].own.requestId
    /\ \A c \in observed.live : observed.store.obj # bodies[c].own.obj

C13_Witness ==
  /\ observed.by # 0
  /\ observed.resumed
  /\ bodies[observed.by].parent = 0
  /\ observed.store = bodies[observed.by].own
  /\ \E c \in observed.live :
       /\ bodies[c].parent = 0
       /\ bodies[c].resumed
       /\ bodies[c].pc = "suspended"
       /\ bodies[c].own.obj < observed.store.obj

(***************************************************************************)
(* Claims about rendering                                                  *)
(***************************************************************************)
RECURSIVE LeafValues(_)
\* The strings and SensitiveValues of a value, at any depth.
LeafValues(v) ==
  CASE v.t = "object" -> UNION {LeafValues(v.fields[i].val) : i \in 1..Len(v.fields)}
    [] v.t = "array"  -> UNION {LeafValues(v.elems[i]) : i \in 1..Len(v.elems)}
    [] OTHER -> {v}

ContextLeaves == LeafValues(ObjectValue(rctx))

Rendered == rdone = {"console", "file"}

\* C7: when the context contains a SensitiveValue at any depth, the text of
\* the console transport and the text of the file transport contain its
\* placeholder and never the wrapped value.
C7_SensitiveValueRedacted ==
  Rendered =>
    \A v \in ContextLeaves :
      v.t = "sensitive" =>
        /\ v.redactedValue \in Range(consoleOut)
        /\ v.redactedValue \in Range(fileOut)
        /\ v.value \notin Range(consoleOut)
        /\ v.value \notin Range(fileOut)

C7_Witness ==
  /\ Rendered
  /\ Len(rctx) = 2
  /\ rctx[1].val.t = "array"
  /\ rctx[1].val.elems[1].t = "object"
  /\ rctx[1].val.elems[1].fields[1].val.t = "sensitive"
  /\ rctx[1].val.elems[1].fields[1].val.redactedValue = "[HIDDEN]"
  /\ rctx[2].val.t = "sensitive"
  /\ "[HIDDEN]" \in Range(consoleOut)
  /\ "[HIDDEN]" \in Range(fileOut)

\* Each pattern matches at most once in s: redactSensitiveData then removes
\* every match.
SingleMatches(s) ==
  \A i, j \in 1..Len(s) : (s[i] = s[j] /\ s[i] # Plain) => i = j

\* C8: for every context string value that matches a sensitive pattern, at
\* the top level or nested, the text of the console transport and the text of
\* the file transport contain the placeholder and not the matching substring.
\* (Stated for contexts whose strings hold one match per pattern.)
C8_PatternsRedacted ==
  (Rendered /\ \A v \in ContextLeaves : v.t = "string" => SingleMatches(v.s)) =>
    \A v \in ContextLeaves :
      (v.t = "string" /\ containsSensitiveData(v.s)) =>
        /\ REDACTED \in Range(consoleOut)
        /\ REDACTED \in Range(fileOut)
        /\ \A j \in 1..Len(v.s) :
             v.s[j] # Plain =>
               v.s[j] \notin Range(consoleOut) /\ v.s[j] \notin Range(fileOut)

(***************************************************************************)
(* Claims about the QueryLogger                                            *)
(***************************************************************************)

\* C23: after any sequence of logQuery, clearLogs and configure calls the
\* number of buffered entries never exceeds the configured capacity maxLogs.
C23_BufferWithinCapacity == Len(qlogs) <= qconfig.maxLogs

\* The last k elements of a sequence.
LastOf(s, k) == SubSeq(s, Len(s) - k + 1, Len(s))

Min(a, b) == IF a < b THEN a ELSE b

\* C24: with the capacity K unchanged since construction or the last
\* clearLogs, after n entries were logged while enabled getLogs() returns
\* exactly the last min(n, K) of them in submission order.
C24_GetLogsReturnsLastK ==
  (qlast.op = "getLogs" /\ qstable)
    => qlast.result = LastOf(qsubmitted, Min(Len(qsubmitted), qconfig.maxLogs))

\* Three entries were logged at capacity 2 and getLogs() returned the second
\* and the third: the oldest was evicted.
C24_Witness ==
  /\ qlast.op = "getLogs"
  /\ qstable
  /\ qconfig.maxLogs = 2
  /\ Len(qsubmitted) = 3
  /\ qsubmitted[1] # qsubmitted[2]
  /\ qlast.result = <<qsubmitted[2], qsubmitted[3]>>

CallsAt(calls, lv) == SelectSeq(calls, LAMBDA c : c.level = lv)

Label(e) == IF e.database \in {<<>>, <<"">>} THEN "unknown" ELSE e.database[1]

\* The sum of the durations of the buffered entries at the positions in S.
RECURSIVE SumAt(_)
SumAt(S) ==
  IF S = {} THEN 0
  ELSE LET i == CHOOSE j \in S : TRUE IN qlogs[i].duration + SumAt(S \ {i})

\* C26: getStats() returns the number of buffered entries, the number of them
\* at or above the current slowQueryThreshold, the mean and the largest
\* duration, and for each label (a missing label, absent or empty, counted as
\* "unknown") its count and mean duration; for an empty buffer all zeros and
\* an empty per-database map.
C26_StatsMatchBuffer ==
  qlast.op = "getStats" =>
    LET r == qlast.result
        all == 1..Len(qlogs)
        at(db) == {i \in all : Label(qlogs[i]) = db}
    IN  /\ r.totalQueries = Len(qlogs)
        /\ r.slowQueries
             = Cardinality({i \in all : qlogs[i].duration >= qconfig.slowQueryThreshold})
        /\ r.averageDuration.den > 0
        /\ r.averageDuration.num * Len(qlogs) = SumAt(all) * r.averageDuration.den
        /\ \A i \in all : qlogs[i].duration <= r.maxDuration
        /\ qlogs # <<>> => \E i \in all : qlogs[i].duration = r.maxDuration
        /\ qlogs = <<>> => r.maxDuration = 0
        /\ DOMAIN r.byDatabase = {Label(qlogs[i]) : i \in all}
        /\ \A db \in DOMAIN r.byDatabase :
             /\ r.byDatabase[db].count = Cardinality(at(db))
             /\ r.byDatabase[db].avgDuration.den > 0
             /\ r.byDatabase[db].avgDuration.num * Cardinality(at(db))
                  = SumAt(at(db)) * r.byDatabase[db].avgDuration.den

\* getStats() ran over two entries, one with a name and one with an empty
\* name, whose mean duration is not a whole number.
C26_Witness ==
  /\ qlast.op = "getStats"
  /\ qlast.result.totalQueries = 2
  /\ qlast.result.slowQueries = 1
  /\ qlast.result.averageDuration.den = 2
  /\ DOMAIN qlast.result.byDatabase = {"unknown", "pg"}
  /\ \E i \in 1..Len(qlogs) : qlogs[i].database = <<"">>

\* getStats() ran over an empty buffer.
C26_WitnessEmpty ==
  /\ qlast.op = "getStats"
  /\ qlogs = <<>>
  /\ qlast.result.totalQueries = 0
  /\ DOMAIN qlast.result.byDatabase = {}

(***************************************************************************)
(* Claims about dispatch, cleanup and the processing of the context        *)
(***************************************************************************)

\* A call of log(), of a level method or of logError().
IsLogCall(call) == call.op \in {"log", "method", "logError"}

\* C21: for each accepted log call every transport registered at the time of
\* the call has its log operation invoked exactly once, in registration order,
\* with the level and message of the call and with one timestamp and one
\* processed context for all of them.
C21_EveryTransportInvokedInOrder ==
  (IsLogCall(lastCall) /\ LOG_LEVEL_PRIORITY[lastCall.level] >= LOG_LEVEL_PRIORITY[level])
    => /\ Len(delivered) = Len(transports)
       /\ \A i \in 1..Len(delivered) :
            /\ delivered[i].transport = transports[i]
            /\ delivered[i].level = lastCall.level
            /\ delivered[i].message = "msg"
            /\ delivered[i].timestamp = delivered[1].timestamp
            /\ delivered[i].context = delivered[1].context

\* C22: cleanup() invokes the cleanup hook of every registered transport that
\* has one, once per registration and in registration order, and empties the
\* list; a log call that follows cleanup() directly invokes no transport.
C22_CleanupInvokesHooksAndEmpties ==
  [][/\ lastCall'.op = "cleanup" =>
          /\ cleanedUp' = SelectSeq(transports, LAMBDA t : t.hook)
          /\ transports' = <<>>
     /\ (lastCall.op = "cleanup" /\ IsLogCall(lastCall')) => delivered' = <<>>]_vars

\* cleanup() ran on a list of two transports, one with a cleanup hook and one
\* without: one hook was invoked and the list is empty.
C22_Witness ==
  /\ lastCall.op = "cleanup"
  /\ Len(lastCall.registered) = 2
  /\ Len(cleanedUp) = 1
  /\ \E i \in 1..2 : ~lastCall.registered[i].hook
  /\ transports = <<>>

\* C30: when several registered transports share a name, removeTransport(name)
\* removes the last-registered one and leaves the earlier ones in the list.
C30_RemovesLastRegisteredOnly ==
  [][lastCall'.op = "removeTransport" =>
       LET named == {i \in 1..Len(transports) : transports[i].name = lastCall'.name}
       IN  IF named = {}
           THEN transports' = transports
           ELSE LET last == CHOOSE i \in named : \A j \in named : j <= i
                IN  transports' = SubSeq(transports, 1, last - 1)
                                    \o SubSeq(transports, last + 1, Len(transports))]_vars

\* The string values of a context.
StringsOf(ctx) == {ctx[k].s : k \in {h \in DOMAIN ctx : "t" \in DOMAIN ctx[h] /\ ctx[h].t = "string"}}

\* C27: the context Logger.log hands to a transport contains no string that
\* matches a sensitive pattern.
C27_ContextHandedOnIsRedacted ==
  \A i \in 1..Len(delivered) :
    \A str \in StringsOf(delivered[i].context) : ~containsSensitiveData(str)

\* The log call's context carries an Error under the key error.
CarriesError(call) ==
  IsLogCall(call) /\ "error" \in DOMAIN call.context /\ IsError(call.context["error"])

\* C28: when the context of a log call carries an Error, the data handed to
\* the transports contains the error's message, and a stack only if the
\* logger is configured with includeStackTrace = true.
C28_StackOnlyWhenConfigured ==
  CarriesError(lastCall) =>
    \A i \in 1..Len(delivered) :
      LET ctx == delivered[i].context
      IN  /\ "message" \in DOMAIN ctx
          /\ ctx["message"] = StringValue(lastCall.context["error"].message)
          /\ "stack" \in DOMAIN ctx => config.includeStackTrace

\* C29: for every key of the context whose value is an Error, whatever its
\* name, the context handed to the transports has no Error left under that
\* key: the entry was replaced by structured data.
C29_EveryErrorEntryReplaced ==
  IsLogCall(lastCall) =>
    \A i \in 1..Len(delivered) :
      \A k \in DOMAIN lastCall.context :
        IsError(lastCall.context[k]) =>
          (k \notin DOMAIN delivered[i].context \/ ~IsError(delivered[i].context[k]))

(***************************************************************************)
(* Claims about the ids and the accessors of the request context           *)
(***************************************************************************)

\* An existing id was supplied: the argument is not null or undefined.
Supplied(existing) == existing # <<>>

\* C31: runWithRequestContext(fn, existingId) creates a store whose id is
\* existingId whenever existingId is supplied, for every string, and a newly
\* generated id otherwise; that id is the one fn observes.
C31_SuppliedIdIsUsed ==
  /\ \A b \in Bodies :
       bodies[b].pc # "new" =>
         IF Supplied(bodies[b].given)
         THEN bodies[b].own.requestId = <<"given", bodies[b].given[1]>>
         ELSE bodies[b].own.requestId = <<"uuid", bodies[b].own.obj>>
  /\ (observed.by # 0 /\ Supplied(bodies[observed.by].given))
       => observed.id = <<"given", bodies[observed.by].given[1]>>

\* C32: outside every scope getRequestStore() returns undefined,
\* getCurrentRequestId() "unknown" and getCurrentRequestStartTime() the
\* current time; inside a scope they return that scope's id and start time.
C32_AccessorsInsideAndOutside ==
  /\ observed.by = 0 =>
       /\ observed.store = NoStore
       /\ observed.id = <<"unknown">>
       /\ observed.startTime = observed.at
  /\ observed.by # 0 =>
       /\ observed.store = bodies[observed.by].own
       /\ observed.id = bodies[observed.by].own.requestId
       /\ observed.startTime = bodies[observed.by].own.requestStartTime

\* The accessors were called outside every scope, after a scope that began
\* earlier has exited.
C32_Witness ==
  /\ observed.by = 0
  /\ stack = <<>>
  /\ observed.id = <<"unknown">>
  /\ \E b \in observed.done : bodies[b].own.requestStartTime < observed.at
  /\ observed.startTime = observed.at

\* The accessors were called inside a scope some time after it began.
C32_WitnessInside ==
  /\ observed.by # 0
  /\ observed.at > observed.startTime
  /\ observed.id = bodies[observed.by].own.requestId

\* C33: when the QueryLogger is disabled logQuery changes nothing: the buffer
\* stays as it was and no call is made on the underlying logger.
C33_DisabledLogQueryIsNoOp ==
  [][(qlast'.op = "logQuery" /\ ~qconfig.enabled) =>
       /\ qlogs' = qlogs
       /\ qconfig' = qconfig
       /\ qlast'.calls = <<>>]_vars

\* A disabled QueryLogger with verbose query logging on and a non-empty
\* buffer was handed a query at or above the threshold.
C33_Witness ==
  /\ qlast.op = "logQuery"
  /\ ~qconfig.enabled
  /\ qconfig.logDebugQueries
  /\ qlast.query.duration >= qconfig.slowQueryThreshold
  /\ qlogs # <<>>
  /\ qlast.query \notin Range(qlogs)
  /\ qlast.calls = <<>>

(***************************************************************************)
(* Claims about pattern redaction                                          *)
(***************************************************************************)

\* The string values of the rendered context that match a sensitive pattern.
MatchingStrings == {v \in ContextLeaves : v.t = "string" /\ containsSensitiveData(v.s)}

\* C36 as stated: for every string value that matches a sensitive pattern the
\* serialized value is exactly the placeholder, nothing of the original string
\* left around it.
C36_WholeValueReplaced ==
  "file" \in rdone => \A v \in MatchingStrings : Serialize(v) = <<REDACTED>>

\* The segments of a string that match no pattern, in order.
PlainOf(s) == SelectSeq(s, LAMBDA x : x = Plain)

\* C36, amended: for every string value that matches a sensitive pattern the
\* serialized value holds the placeholder in the place of a match, and the
\* text of the original that matches no pattern is kept around it, in order;
\* a string that is one match as a whole is serialized as the placeholder.
C36_MatchReplacedRestKept ==
  "file" \in rdone =>
    \A v \in MatchingStrings :
      /\ REDACTED \in Range(Serialize(v))
      /\ Len(Serialize(v)) = Len(v.s)
      /\ \A j \in 1..Len(v.s) : v.s[j] = Plain => Serialize(v)[j] = Plain
      /\ PlainOf(Serialize(v)) = PlainOf(v.s)
      /\ Len(v.s) = 1 => Serialize(v) = <<REDACTED>>

\* The file transport serialized a context that holds a string with text
\* before a match and a string that is one match as a whole.
C36_Witness ==
  /\ "file" \in rdone
  /\ StringValue(<<Plain, "PASSWORD">>) \in MatchingStrings
  /\ StringValue(<<"JWT">>) \in MatchingStrings
  /\ Plain \in Range(fileOut)
  /\ REDACTED \in Range(fileOut)

\* C39: for every string s the result of redactSensitiveData(s) contains no
\* substring that matches a sensitive pattern, also when s holds several
\* occurrences of one pattern or occurrences of several patterns.
C39_ResultMatchesNoPattern ==
  "file" \in rdone =>
    \A v \in ContextLeaves :
      v.t = "string" => ~containsSensitiveData(redactSensitiveData(v.s))

(***************************************************************************)
(* Claims about the busy flag of the FileTransport                         *)
(***************************************************************************)

\* The drain loop is suspended at its await: the flag is set and the loop
\* waits for the 'drain' event of a stream.
SuspendedOnDrain == isProcessingQueue /\ waiters # <<>>

\* C38: the busy flag never stays set forever: from every state in which the
\* drain loop is suspended waiting for 'drain', also when the stream fails or
\* initialize() is called again during the wait, the loop eventually finishes
\* and clears the flag.
C38_BusyFlagEventuallyCleared == SuspendedOnDrain ~> ~isProcessingQueue

(***************************************************************************)
(* Claims about the formatters                                             *)
(***************************************************************************)

\* C40: the formatter held by the Logger renders each entry the built-in
\* transports write: the text the console transport and the file transport
\* build for an entry is formatter.format(level, message, timestamp, context).
C40_HeldFormatterRenders ==
  [][/\ ("file" \in rdone' /\ "file" \notin rdone)
          => fileOut' = FormatWith(formatter, <<"info">>, <<"msg">>, Timestamp, rctx)
     /\ ("console" \in rdone' /\ "console" \notin rdone)
          => consoleOut' = FormatWith(formatter, <<"info">>, <<"msg">>, Timestamp, rctx)]_vars

\* The keys of an object.
KeysOf(fields) == {fields[i].key : i \in 1..Len(fields)}

\* The value of a key in an object that holds the key once.
ValueOf(fields, k) == fields[CHOOSE i \in 1..Len(fields) : fields[i].key = k].val

\* C34: parsing JsonFormatter.format(level, msg, ts, ctx) as JSON yields the
\* object {level, message: msg, timestamp: ts, ...ctx}: the three fixed
\* fields, each context entry (an entry named like a fixed field taking its
\* place) and nothing else.
C34_JsonRoundTrip ==
  formatted # <<>> =>
    LET parsed == JSONParse(formatted.text)
        fixed == [level |-> StringValue(formatted.level),
                  message |-> StringValue(formatted.message),
                  timestamp |-> StringValue(formatted.timestamp)]
        ctx == formatted.context
    IN  /\ parsed.t = "object"
        /\ KeysOf(parsed.fields) = {"level", "message", "timestamp"} \cup KeysOf(ctx)
        /\ Len(parsed.fields) = Cardinality(KeysOf(parsed.fields))
        /\ \A k \in KeysOf(parsed.fields) :
             ValueOf(parsed.fields, k) = IF k \in KeysOf(ctx) THEN ValueOf(ctx, k) ELSE fixed[k]

\* A message with quotes and a context of two entries, one of them an object
\* holding an array, were formatted and parse back to five fields.
C34_Witness ==
  /\ formatted # <<>>
  /\ "\"" \in Range(formatted.message)
  /\ Len(formatted.context) = 2
  /\ formatted.context[2].val.t = "object"
  /\ Len(formatted.context[2].val.fields) = 2
  /\ "\\" \in Range(formatted.text)
  /\ Len(JSONParse(formatted.text).fields) = 5

\* An empty context was formatted: the text parses back to three fields.
C34_WitnessEmpty ==
  /\ formatted # <<>>
  /\ formatted.context = <<>>
  /\ Len(JSONParse(formatted.text).fields) = 3

(***************************************************************************)
(* C35                                                                     *)
(***************************************************************************)
\* The properties of object id that hold references.
RefsOf(g, id) == {i \in 1..Len(g[id]) : g[id][i].val.t = "ref"}

RECURSIVE ReachableFrom(_, _)
\* The objects that can be reached from the objects of S.
ReachableFrom(g, S) ==
  LET next == S \cup UNION {{g[id][i].val.id : i \in RefsOf(g, id)} : id \in S}
  IN  IF next = S THEN S ELSE ReachableFrom(g, next)

\* The number of occurrences of tok in text.
Occurrences(text, tok) == Cardinality({i \in 1..Len(text) : text[i] = tok})

\* The number of references held by the objects of S.
RECURSIVE References(_, _)
References(g, S) ==
  IF S = {} THEN 0
  ELSE LET id == CHOOSE a \in S : TRUE
       IN  Cardinality(RefsOf(g, id)) + References(g, S \ {id})

\* C35: safeStringify of a context whose objects refer to each other, in
\* cycles or more than once, returns and does not throw; each object that
\* can be reached is rendered once, at its first occurrence, and every other
\* reference to an object is rendered as the marker "[Circular]".
C35_CircularMarker ==
  stringified # <<>> =>
    LET g == stringified.graph
        R == ReachableFrom(g, {"root"})
    IN  /\ ~stringified.threw
        /\ Occurrences(stringified.text, "{") = Cardinality(R)
        /\ Occurrences(stringified.text, Circular)
             = References(g, R) - (Cardinality(R) - 1)
        /\ stringified.text[1] = "{"

\* A cycle through two objects and a second reference to one of them:
\* root.p = x, root.q = x, x.p = root.
C35_Witness ==
  /\ stringified # <<>>
  /\ stringified.graph["root"] = <<[key |-> "p", val |-> Ref("x")], [key |-> "q", val |-> Ref("x")]>>
  /\ stringified.graph["x"] = <<[key |-> "p", val |-> Ref("root")]>>
  /\ stringified.text = <<"{", "p", "{", "p", Circular, "}", "q", Circular, "}">>

\* The context of the test: context.self = context.
C35_WitnessSelf ==
  /\ stringified # <<>>
  /\ stringified.graph["root"] = <<[key |-> "p", val |-> StringValue(<<Plain>>)],
                                   [key |-> "q", val |-> Ref("root")]>>
  /\ stringified.text = <<"{", "p", Plain, "q", Circular, "}">>

(***************************************************************************)
(* C37                                                                     *)
(***************************************************************************)
\* The entries and fn's events of the call, by name, in order.
EntryNames == [i \in 1..Len(gtrace) |-> gtrace[i].entry]

\* C37: with start/end logging, runWithGenericContext logs a start entry,
\* then fn begins, and then either fn completes, a finish entry is logged
\* and fn's result is returned, or fn throws, an error entry is logged, no
\* finish entry, and fn's error is rethrown; without start/end logging there
\* is no start and no finish entry.  Every entry carries the id fn observes.
C37_StartThenFinishOrError ==
  LET begun == IF LogStartEnd(gopts) THEN <<"start", "fnBegin">> ELSE <<"fnBegin">>
      finished == IF LogStartEnd(gopts) THEN <<"fnResolved", "finish">> ELSE <<"fnResolved">>
  IN  /\ gpc = "awaiting" => EntryNames = begun
      /\ gpc = "settled" =>
           \/ /\ EntryNames = begun \o finished
              /\ goutcome = [kind |-> "resolved", value |-> Result]
           \/ /\ EntryNames = begun \o <<"fnThrew", "error">>
              /\ goutcome = [kind |-> "rejected", error |-> FnError]
      /\ \A i \in 1..Len(gtrace) : gtrace[i].requestId = gstore.requestId

====
